---- MODULE Spec2Model ----
(***************************************************************************)
(* Planning orchestrator of motherload-agent                               *)
(* (src/src/services/agent-planner/run-agent-planner.ts).                  *)
(*                                                                         *)
(* Strings the code inspects character by character (execution tokens,     *)
(* directions, upgrade kinds) are tuples of one-character strings, so that *)
(* toUpperCase, startsWith, split(":") and the token regular expressions   *)
(* are computed, not assumed.  A text whose only use is whitespace         *)
(* tokenisation is the sequence of its tokens.                             *)
(***************************************************************************)
EXTENDS Integers, Sequences, FiniteSets, TLC

VARIABLES
    apiKey,         \* OPENROUTER_API_KEY is non-empty (read once at startup)
    maxPlans,       \* MAX_PLANS_PER_SESSION (read once at startup)
    now,            \* Date.now(), in units of TickMs
    lastRequestAt,  \* let lastRequestAt (ms)
    planCount,      \* let planCount
    sessions,       \* const sessions: Map<string, SessionMemory>
    req,            \* one record per invocation of callOpenRouterPlan
    lastCallAt,     \* start time (ms) of the latest client.chat.completions.create
    minGap,         \* smallest time between two such calls so far, capped
    call,           \* harness: the arguments of a pure function under check
    ret             \* harness: its result

vars == <<apiKey, maxPlans, now, lastRequestAt, planCount, sessions, req,
          lastCallAt, minGap, call, ret>>

protocolVars == <<apiKey, maxPlans, now, lastRequestAt, planCount, sessions,
                  req, lastCallAt, minGap>>

harnessVars == <<call, ret>>

None == "none"

Min(a, b) == IF a <= b THEN a ELSE b

Max(a, b) == IF a >= b THEN a ELSE b

(***************************************************************************)
(* Characters and tokens                                                   *)
(***************************************************************************)
LowerLetters == <<"a","b","c","d","e","f","g","h","i","j","k","l","m",
                  "n","o","p","q","r","s","t","u","v","w","x","y","z">>

UpperLetters == <<"A","B","C","D","E","F","G","H","I","J","K","L","M",
                  "N","O","P","Q","R","S","T","U","V","W","X","Y","Z">>

\* String.prototype.toUpperCase on one character
toUpperChar(c) ==
    IF \E i \in 1..Len(LowerLetters) : LowerLetters[i] = c
    THEN UpperLetters[CHOOSE i \in 1..Len(LowerLetters) : LowerLetters[i] = c]
    ELSE c

\* String.prototype.toUpperCase
toUpperCase(s) == [i \in 1..Len(s) |-> toUpperChar(s[i])]

\* String.prototype.startsWith
startsWith(s, p) == Len(s) >= Len(p) /\ SubSeq(s, 1, Len(p)) = p

\* index of the first occurrence of character c in s at or after i, else 0
RECURSIVE indexOfFrom(_, _, _)
indexOfFrom(s, c, i) ==
    IF i > Len(s) THEN 0
    ELSE IF s[i] = c THEN i
    ELSE indexOfFrom(s, c, i + 1)

\* s.split(":", 2)[1] for a string that holds a colon: the text between the
\* first colon and the second one (or the end of the string)
splitColonSecond(s) ==
    LET a == indexOfFrom(s, ":", 1)
        b == indexOfFrom(s, ":", a + 1)
    IN  IF b = 0 THEN SubSeq(s, a + 1, Len(s)) ELSE SubSeq(s, a + 1, b - 1)

STR_SURFACE_OPS == <<"S","U","R","F","A","C","E","_","O","P","S">>

STR_MOVE_ == <<"M","O","V","E",":">>

STR_UPGRADE_ == <<"U","P","G","R","A","D","E",":">>

\* type Direction = "U" | "D" | "L" | "R"
Direction == {<<"U">>, <<"D">>, <<"L">>, <<"R">>}

\* type UpgradeKind = "FUEL" | "CARGO" | "HULL" | "DRILL"
UpgradeKind == {<<"F","U","E","L">>, <<"C","A","R","G","O">>,
                <<"H","U","L","L">>, <<"D","R","I","L","L">>}

DIR_D == <<"D">>

KIND_FUEL == <<"F","U","E","L">>

(***************************************************************************)
(* Actions                                                                 *)
(***************************************************************************)
ActMove(d, why) == [type |-> "MOVE", dir |-> d, reason |-> why]

ActUpgrade(k, why) == [type |-> "UPGRADE", kind |-> k, reason |-> why]

ActSurfaceOps(why) == [type |-> "SURFACE_OPS", reason |-> why]

\* a well-typed Action of data-flow-models
IsAction(a) ==
    \/ a.type = "MOVE" /\ a.dir \in Direction
    \/ a.type = "UPGRADE" /\ a.kind \in UpgradeKind
    \/ a.type = "SURFACE_OPS"

\* a clamp that forgets the ceiling of 10
clampPlanLength_NoCeiling(planLength) ==
    Max(1, IF planLength = 0 THEN 1 ELSE planLength)

\* Math.max(1, Math.min(10, planLength || 1))
clampPlanLength(planLength) ==
    Max(1, Min(10, IF planLength = 0 THEN 1 ELSE planLength))

\* rules that try the upgrade shop before the fuel station
planSlot_ShopFirst(state) ==
    IF state.atUpgradeShop /\ state.money >= 150
    THEN ActUpgrade(KIND_FUEL, "Buying fuel upgrade.")
    ELSE IF state.atFuelStation /\ (state.cargo.cur > 0 \/ state.fuel.cur < state.fuel.max)
    THEN ActSurfaceOps("Refuel and cash in at station.")
    ELSE ActMove(DIR_D, "Server plan: move down.")

\* the action planActions pushes in one iteration of its loop
planSlot(state) ==
    IF state.atFuelStation /\ (state.cargo.cur > 0 \/ state.fuel.cur < state.fuel.max)
    THEN ActSurfaceOps("Refuel and cash in at station.")
    ELSE IF state.atUpgradeShop /\ state.money >= 150
    THEN ActUpgrade(KIND_FUEL, "Buying fuel upgrade.")
    ELSE ActMove(DIR_D, "Server plan: move down.")

\* a loop that starts one slot late
planActions_OneTooFew(state, planLength) ==
    [i \in 1..(clampPlanLength(planLength) - 1) |-> planSlot(state)]

\* a loop that runs one slot too far
planActions_OneTooMany(state, planLength) ==
    [i \in 1..(clampPlanLength(planLength) + 1) |-> planSlot(state)]

\* planActions(state, planLength)
planActions(state, planLength) ==
    [i \in 1..clampPlanLength(planLength) |-> planSlot(state)]

\* a.reason || dflt
reasonOr(a, dflt) ==
    IF "reason" \in DOMAIN a /\ a.reason # "" THEN a.reason ELSE dflt

\* a filter that rejects a malformed dir or kind instead of coercing it
sanitizeOne_DropsMalformed(a) ==
    IF "type" \notin DOMAIN a THEN <<>>
    ELSE IF a.type = "MOVE"
    THEN IF "dir" \in DOMAIN a /\ a.dir \in Direction
         THEN <<ActMove(a.dir, reasonOr(a, "Fallback move."))>> ELSE <<>>
    ELSE IF a.type = "UPGRADE"
    THEN IF "kind" \in DOMAIN a /\ a.kind \in UpgradeKind
         THEN <<ActUpgrade(a.kind, reasonOr(a, "Fallback upgrade."))>> ELSE <<>>
    ELSE IF a.type = "SURFACE_OPS"
    THEN <<ActSurfaceOps(reasonOr(a, "Fallback surface ops."))>>
    ELSE <<>>

\* what one iteration of sanitizeActions' loop appends to out (at most one
\* action) for candidate a; a candidate that is null or has no string type
\* is a record without a "type" field
sanitizeOne(a) ==
    IF "type" \notin DOMAIN a THEN <<>>
    ELSE IF a.type = "MOVE"
    THEN <<ActMove(IF "dir" \in DOMAIN a /\ a.dir \in Direction THEN a.dir ELSE DIR_D,
                   reasonOr(a, "Fallback move."))>>
    ELSE IF a.type = "UPGRADE"
    THEN <<ActUpgrade(IF "kind" \in DOMAIN a /\ a.kind \in UpgradeKind THEN a.kind ELSE KIND_FUEL,
                      reasonOr(a, "Fallback upgrade."))>>
    ELSE IF a.type = "SURFACE_OPS"
    THEN <<ActSurfaceOps(reasonOr(a, "Fallback surface ops."))>>
    ELSE <<>>

\* the loop of sanitizeActions: out after the candidates from index i on
RECURSIVE sanitizeLoop(_, _, _, _)
sanitizeLoop(actions, i, out, max) ==
    IF i > Len(actions) \/ Len(out) >= max THEN out
    ELSE sanitizeLoop(actions, i + 1, out \o sanitizeOne(actions[i]), max)

\* the synthetic state sanitizeActions hands to planActions
SyntheticState ==
    [atFuelStation |-> FALSE, atUpgradeShop |-> FALSE,
     fuel |-> [cur |-> 1, max |-> 1], cargo |-> [cur |-> 0, cap |-> 0],
     money |-> 0, pos |-> [x |-> 0, y |-> 0, depth |-> 0],
     hull |-> [cur |-> 1, max |-> 1],
     localScan |-> [isArray |-> TRUE, rows |-> <<>>], turn |-> 0]

\* sanitizeActions(actions, planLength)
sanitizeActions(actions, planLength) ==
    LET max == clampPlanLength(planLength)
        out == sanitizeLoop(actions, 1, <<>>, max)
    IN  IF Len(out) > 0 THEN out ELSE planActions(SyntheticState, max)

(***************************************************************************)
(* Tagged-output extraction and the execution grammar                      *)
(***************************************************************************)
\* A model text is a record: tag says whether it holds "<execution>" at
\* all ("none"), an open and a close tag ("closed") or only the open tag
\* ("open"); body is the token sequence after the open tag (up to the close
\* tag when there is one); empty marks the empty string.
EmptyText == [empty |-> TRUE, tag |-> "none", body |-> <<>>]

Text(tag, body) == [empty |-> FALSE, tag |-> tag, body |-> body]

STR_CLOSE_TAG == <<"<","/","e","x","e","c","u","t","i","o","n",">">>

\* extractExecutionText(text): null, or the trimmed body as its token
\* sequence.  A closed tag with a blank body makes extractTaggedText return
\* "", which is falsy, so the open-tag pattern runs and captures everything
\* after "<execution>", the close tag included.
extractExecutionText(text) ==
    IF text.tag = "none" THEN [isNull |-> TRUE, tokens |-> <<>>]
    ELSE IF text.tag = "closed" /\ text.body = <<>>
    THEN [isNull |-> FALSE, tokens |-> <<STR_CLOSE_TAG>>]
    ELSE [isNull |-> FALSE, tokens |-> text.body]

\* !executionText: null or the empty string
noExecutionText(executionText) ==
    executionText.isNull \/ executionText.tokens = <<>>

\* tokenSchema of validateExecution on an upper-cased token
tokenOk(t) ==
    \/ t = STR_SURFACE_OPS
    \/ \E d \in Direction : t = STR_MOVE_ \o d
    \/ \E k \in UpgradeKind : t = STR_UPGRADE_ \o k

\* a validation that forgets to upper-case the tokens
validateExecution_NoUpperCase(tokens, planLength) ==
    /\ Len(tokens) >= 1
    /\ Len(tokens) <= planLength
    /\ \A i \in 1..Len(tokens) : tokenOk(tokens[i])

\* validateExecution(executionText, planLength).result.success
validateExecution(tokens, planLength) ==
    /\ Len(tokens) >= 1
    /\ Len(tokens) <= planLength
    /\ \A i \in 1..Len(tokens) : tokenOk(toUpperCase(tokens[i]))

\* a parser that has no case for SURFACE_OPS
parseOne_NoSurfaceOps(raw) ==
    LET t == toUpperCase(raw)
    IN  IF startsWith(t, STR_UPGRADE_)
        THEN <<ActUpgrade(splitColonSecond(t), "Planned action.")>>
        ELSE IF startsWith(t, STR_MOVE_)
        THEN <<ActMove(splitColonSecond(t), "Planned action.")>>
        ELSE <<>>

\* what one iteration of parseActionTokens' loop appends for token raw
parseOne(raw) ==
    LET t == toUpperCase(raw)
    IN  IF t = STR_SURFACE_OPS THEN <<ActSurfaceOps("Planned action.")>>
        ELSE IF startsWith(t, STR_UPGRADE_)
        THEN <<ActUpgrade(splitColonSecond(t), "Planned action.")>>
        ELSE IF startsWith(t, STR_MOVE_)
        THEN <<ActMove(splitColonSecond(t), "Planned action.")>>
        ELSE <<>>

\* parseActionTokens(executionText)
RECURSIVE parseActionTokens(_)
parseActionTokens(tokens) ==
    IF tokens = <<>> THEN <<>>
    ELSE parseOne(Head(tokens)) \o parseActionTokens(Tail(tokens))

(***************************************************************************)
(* Session memory                                                          *)
(***************************************************************************)
\* a row of state.localScan: a string (its characters) or some other value
Row(chars) == [isString |-> TRUE, chars |-> chars]

NonStringRow == [isString |-> FALSE, chars |-> <<>>]

\* the SessionMemory getSession creates
NewSession(id) ==
    [id |-> id,
     known |-> <<>>,
     visited |-> <<>>,
     bounds |-> [minX |-> 0, maxX |-> 0, minY |-> 0, maxY |-> 0],
     history |-> <<>>,
     fuelRuns |-> 0,
     lastAtStation |-> FALSE]

\* sessionId || "default"
sessionKey(sessionId) == IF sessionId = None \/ sessionId = "" THEN "default" ELSE sessionId

\* getSession(sessionId): the sessions map after the call
getSession(map, sessionId) ==
    LET id == sessionKey(sessionId)
    IN  IF id \in DOMAIN map THEN map
        ELSE [k \in DOMAIN map \cup {id} |-> IF k = id THEN NewSession(id) ELSE map[k]]

\* a map that keeps the first tile seen at a coordinate
knownSet_KeepFirst(known, key, t) ==
    [k \in DOMAIN known \cup {key} |-> IF k \in DOMAIN known THEN known[k] ELSE t]

\* session.known.set(key, t); the key "gx,gy" is the pair <<gx, gy>>
knownSet(known, key, t) ==
    [k \in DOMAIN known \cup {key} |-> IF k = key THEN t ELSE known[k]]

\* a box whose upper x bound is narrowed instead of widened
updateCell_MaxAsMin(session, baseX, baseY, rx, ry, t) ==
    LET gx == baseX + rx
        gy == baseY + ry
        known == knownSet(session.known, <<gx, gy>>, t)
        b == session.bounds
    IN  [session EXCEPT
            !.known = known,
            !.bounds = IF Cardinality(DOMAIN known) = 1
                       THEN [minX |-> gx, maxX |-> gx, minY |-> gy, maxY |-> gy]
                       ELSE [minX |-> Min(b.minX, gx), maxX |-> Min(b.maxX, gx),
                             minY |-> Min(b.minY, gy), maxY |-> Max(b.maxY, gy)]]

\* a first-insert test made before the insert instead of after it
updateCell_SizeBefore(session, baseX, baseY, rx, ry, t) ==
    LET gx == baseX + rx
        gy == baseY + ry
        known == knownSet(session.known, <<gx, gy>>, t)
        b == session.bounds
    IN  [session EXCEPT
            !.known = known,
            !.bounds = IF Cardinality(DOMAIN session.known) = 1
                       THEN [minX |-> gx, maxX |-> gx, minY |-> gy, maxY |-> gy]
                       ELSE [minX |-> Min(b.minX, gx), maxX |-> Max(b.maxX, gx),
                             minY |-> Min(b.minY, gy), maxY |-> Max(b.maxY, gy)]]

\* rows and columns taken for each other
updateCell_Transposed(session, baseX, baseY, rx, ry, t) ==
    LET gx == baseX + ry
        gy == baseY + rx
        known == knownSet(session.known, <<gx, gy>>, t)
        b == session.bounds
    IN  [session EXCEPT
            !.known = known,
            !.bounds = IF Cardinality(DOMAIN known) = 1
                       THEN [minX |-> gx, maxX |-> gx, minY |-> gy, maxY |-> gy]
                       ELSE [minX |-> Min(b.minX, gx), maxX |-> Max(b.maxX, gx),
                             minY |-> Min(b.minY, gy), maxY |-> Max(b.maxY, gy)]]

\* the body of updateMemory's inner loop for the cell at (rx, ry)
updateCell(session, baseX, baseY, rx, ry, t) ==
    LET gx == baseX + rx
        gy == baseY + ry
        known == knownSet(session.known, <<gx, gy>>, t)
        b == session.bounds
    IN  [session EXCEPT
            !.known = known,
            !.bounds = IF Cardinality(DOMAIN known) = 1
                       THEN [minX |-> gx, maxX |-> gx, minY |-> gy, maxY |-> gy]
                       ELSE [minX |-> Min(b.minX, gx), maxX |-> Max(b.maxX, gx),
                             minY |-> Min(b.minY, gy), maxY |-> Max(b.maxY, gy)]]

\* updateMemory's two loops from row ry (0-based), column rx (0-based) on
RECURSIVE updateLoop(_, _, _, _, _, _)
updateLoop(session, scan, baseX, baseY, ry, rx) ==
    IF ry >= Len(scan) THEN session
    ELSE IF ~scan[ry + 1].isString \/ rx >= Len(scan[ry + 1].chars)
    THEN updateLoop(session, scan, baseX, baseY, ry + 1, 0)
    ELSE updateLoop(updateCell(session, baseX, baseY, rx, ry, scan[ry + 1].chars[rx + 1]),
                    scan, baseX, baseY, ry, rx + 1)

VISITED_MAX == 50

HISTORY_MAX == 200

\* a bound kept by refusing the newest entry instead of evicting the oldest
pushBounded_DropNewest(seq, e, max) ==
    LET grown == Append(seq, e)
    IN  IF Len(grown) > max THEN seq ELSE grown

\* push then shift once the length exceeds max
pushBounded(seq, e, max) ==
    LET grown == Append(seq, e)
    IN  IF Len(grown) > max THEN Tail(grown) ELSE grown

\* an updateMemory that records the trail and skips the scan
updateMemory_TrailOnly(session, state) ==
    IF ~state.localScan.isArray THEN session
    ELSE [session EXCEPT !.visited =
             pushBounded(session.visited,
                         [x |-> state.pos.x, y |-> state.pos.y, turn |-> state.turn],
                         VISITED_MAX)]

\* updateMemory(session, state); state.localScan is [isArray, rows]
updateMemory(session, state) ==
    IF ~state.localScan.isArray THEN session
    ELSE LET folded == updateLoop(session, state.localScan.rows,
                                  state.pos.x - 2, state.pos.y - 2, 0, 0)
         IN  [folded EXCEPT !.visited =
                 pushBounded(folded.visited,
                             [x |-> state.pos.x, y |-> state.pos.y, turn |-> state.turn],
                             VISITED_MAX)]

\* a counter without the debounce: every request at the station counts
updateFuelRunCount_NoDebounce(session, state) ==
    IF ~state.atFuelStation THEN [session EXCEPT !.lastAtStation = FALSE]
    ELSE [session EXCEPT !.fuelRuns = session.fuelRuns + 1, !.lastAtStation = TRUE]

\* updateFuelRunCount(session, state)
updateFuelRunCount(session, state) ==
    IF ~state.atFuelStation THEN [session EXCEPT !.lastAtStation = FALSE]
    ELSE IF ~session.lastAtStation
    THEN [session EXCEPT !.fuelRuns = session.fuelRuns + 1, !.lastAtStation = TRUE]
    ELSE session

\* appendHistory(session, role, content)
appendHistory(session, role, content) ==
    [session EXCEPT !.history =
        pushBounded(session.history, [role |-> role, content |-> content], HISTORY_MAX)]

(***************************************************************************)
(* Bounds and inputs of the protocol                                       *)
(***************************************************************************)
MaxRequests == 2        \* invocations of callOpenRouterPlan in one behaviour; they may overlap

MaxTicks == 2           \* clock ticks in one behaviour (more while a timer is pending)

TickMs == 250           \* one clock tick, in ms

MaxPlanLength == 3      \* the largest planLength a request to the protocol carries

MaxCeiling == 1         \* the largest configured MAX_PLANS_PER_SESSION

MIN_REQUEST_GAP_MS == 500

NoCallYet == 0 - 1

Slots == 1..MaxRequests

SessionIds == {None, "s2"}

Scan(rows) == [isArray |-> TRUE, rows |-> rows]

\* a game state as the HTTP layer hands it over (validateState has passed)
GameState(turn, x, y, fuelCur, fuelMax, cargoCur, money, atFuel, atShop, scan) ==
    [turn |-> turn, pos |-> [x |-> x, y |-> y, depth |-> y],
     fuel |-> [cur |-> fuelCur, max |-> fuelMax],
     hull |-> [cur |-> 1, max |-> 1],
     cargo |-> [cur |-> cargoCur, cap |-> 4],
     money |-> money, atFuelStation |-> atFuel, atUpgradeShop |-> atShop,
     localScan |-> scan]

\* at the fuel station (and the shop) with cargo to sell
GameStates_atStation ==
    GameState(0, 6, 1, 3, 4, 1, 200, TRUE, TRUE, Scan(<<Row(<<".", "S">>)>>))

\* underground, away from both stations
GameStates_underground ==
    GameState(1, 6, 3, 1, 1, 0, 0, FALSE, FALSE, Scan(<<Row(<<"d">>), Row(<<>>)>>))

\* the (state, planLength) pairs of the protocol's requests
PlanInputs == { <<GameStates_atStation, MaxPlanLength>>, <<GameStates_underground, 1>> }

TOK_MOVE_D == <<"M","O","V","E",":","D">>

TOK_move_r == <<"m","o","v","e",":","r">>

TOK_UPGRADE_HULL == <<"U","P","G","R","A","D","E",":","H","U","L","L">>

TOK_MOVE_Z == <<"M","O","V","E",":","Z">>

\* the texts the model endpoint may answer with
ModelTexts ==
    { Text("none", <<>>),
      Text("closed", <<TOK_MOVE_D>>),
      Text("open", <<TOK_move_r, TOK_UPGRADE_HULL>>),
      Text("closed", <<TOK_MOVE_Z>>) }

\* message.content and message.reasoning of a completion; a missing or
\* non-string field is the empty text
ModelResponses ==
    [content : ModelTexts, reasoning : {EmptyText}]
    \cup [content : {EmptyText}, reasoning : {EmptyText, Text("closed", <<TOK_MOVE_D>>)}]

\* responseContent || reasoningText || ""
combinedTextOf(response) ==
    IF ~response.content.empty THEN response.content
    ELSE IF ~response.reasoning.empty THEN response.reasoning
    ELSE EmptyText

(***************************************************************************)
(* callOpenRouterPlan and requestCorrection                                *)
(***************************************************************************)
IdleReq ==
    [pc |-> "idle", state |-> SyntheticState, planLength |-> 0, sessionId |-> None,
     wakeAt |-> 0, timeoutId |-> FALSE, abortedByTimeout |-> FALSE,
     combinedText |-> EmptyText, failNote |-> None,
     response |-> [actions |-> <<>>, note |-> None, status |-> None],
     calls |-> 0, historySent |-> 0]

PlanResponse(actions, note, status) ==
    [actions |-> actions, note |-> note, status |-> status]

\* JSON.stringify(userPayload), as far as the history keeps it apart
payloadText(state, planLength) ==
    [kind |-> "payload", planLength |-> planLength, turn |-> state.turn]

\* summarizeUserPayloadForHistory(payloadText)
summarizeUserPayloadForHistory(payload) ==
    [kind |-> "summary", planLength |-> payload.planLength, turn |-> payload.turn]

\* the request returns: its slot holds the PlanResponse
Finish(r, rec, response) ==
    [rec EXCEPT !.pc = "done", !.response = response, !.timeoutId = FALSE]

\* a completion call starts now: the time since the previous one is noted
LogCall ==
    /\ lastCallAt' = now
    /\ minGap' = IF lastCallAt = NoCallYet THEN minGap ELSE Min(minGap, now - lastCallAt)

\* lines 593-624: lastRequestAt = Date.now(), the abort timer is set and the
\* first completion call goes out; its messages carry the session history
\* as it is now (line 615), historySent entries
IssueFirstCall(r, rec, history) ==
    /\ lastRequestAt' = now
    /\ LogCall
    /\ req' = [req EXCEPT ![r] = [rec EXCEPT !.pc = "awaiting", !.timeoutId = TRUE,
                                             !.abortedByTimeout = FALSE,
                                             !.calls = rec.calls + 1,
                                             !.historySent = Len(history)]]

\* guards that test the ceiling only
planGuard_KeyIgnored(key, ceiling, count) ==
    IF ceiling > 0 /\ count >= ceiling THEN "fallback-max-plans" ELSE None

\* a ceiling that is tested with > instead of >=
planGuard_OffByOne(key, ceiling, count) ==
    IF ~key THEN "fallback-no-key"
    ELSE IF ceiling > 0 /\ count > ceiling THEN "fallback-max-plans"
    ELSE None

\* the guards at the entry of callOpenRouterPlan (lines 530-537): the note
\* of the fallback they return with, or None when the request goes on
planGuard(key, ceiling, count) ==
    IF ~key THEN "fallback-no-key"
    ELSE IF ceiling > 0 /\ count >= ceiling THEN "fallback-max-plans"
    ELSE None

\* callOpenRouterPlan from its entry to its first suspension point
Plan(r, state, planLength, sessionId) ==
    /\ req[r].pc = "idle"
    /\ \A q \in Slots : q < r => req[q].pc # "idle"    \* invocations are numbered in arrival order
    /\ LET rec == [IdleReq EXCEPT !.state = state, !.planLength = planLength,
                                  !.sessionId = sessionId]
           guard == planGuard(apiKey, maxPlans, planCount)
       IN  IF guard # None
           THEN /\ req' = [req EXCEPT ![r] =
                        Finish(r, rec, PlanResponse(planActions(state, planLength),
                                                    guard, None))]
                /\ UNCHANGED <<sessions, lastRequestAt, lastCallAt, minGap>>
           ELSE LET id == sessionKey(sessionId)
                    map == getSession(sessions, sessionId)
                    waitMs == Max(0, MIN_REQUEST_GAP_MS - (now - lastRequestAt))
                IN  /\ sessions' = [map EXCEPT ![id] =
                            updateFuelRunCount(updateMemory(map[id], state), state)]
                    /\ IF waitMs > 0
                       THEN /\ req' = [req EXCEPT ![r] =
                                    [rec EXCEPT !.pc = "waiting", !.wakeAt = now + waitMs]]
                            /\ UNCHANGED <<lastRequestAt, lastCallAt, minGap>>
                       ELSE IssueFirstCall(r, rec, map[id].history)
    /\ UNCHANGED <<apiKey, maxPlans, now, planCount, harnessVars>>

\* the throttle's setTimeout fires and the function resumes at line 593
WakeUp(r) ==
    /\ req[r].pc = "waiting"
    /\ now >= req[r].wakeAt
    /\ IssueFirstCall(r, req[r], sessions[sessionKey(req[r].sessionId)].history)
    /\ UNCHANGED <<apiKey, maxPlans, now, planCount, sessions, harnessVars>>

\* a slip that papers the upstream failure over with the fallback plan
apiError_WithFallback(r, byTimeout) ==
    LET id == sessionKey(req[r].sessionId)
        payload == payloadText(req[r].state, req[r].planLength)
    IN  /\ sessions' = [sessions EXCEPT ![id] =
                appendHistory(appendHistory(sessions[id], "user", payload),
                              "assistant", [kind |-> "error"])]
        /\ req' = [req EXCEPT ![r] =
                Finish(r, [req[r] EXCEPT !.abortedByTimeout = byTimeout],
                       PlanResponse(planActions(req[r].state, req[r].planLength),
                                    "api-error", "api_error"))]

\* a failure that is written to the history of every session
apiError_AllSessions(r, byTimeout) ==
    LET payload == payloadText(req[r].state, req[r].planLength)
    IN  /\ sessions' = [id \in DOMAIN sessions |->
                appendHistory(appendHistory(sessions[id], "user", payload),
                              "assistant", [kind |-> "error"])]
        /\ req' = [req EXCEPT ![r] =
                Finish(r, [req[r] EXCEPT !.abortedByTimeout = byTimeout],
                       PlanResponse(<<>>, "api-error", "api_error"))]

\* a failure that records the error without the user turn before it
apiError_AssistantOnly(r, byTimeout) ==
    LET id == sessionKey(req[r].sessionId)
    IN  /\ sessions' = [sessions EXCEPT ![id] =
                appendHistory(sessions[id], "assistant", [kind |-> "error"])]
        /\ req' = [req EXCEPT ![r] =
                Finish(r, [req[r] EXCEPT !.abortedByTimeout = byTimeout],
                       PlanResponse(<<>>, "api-error", "api_error"))]

\* the catch block of the first call (lines 634-656); byTimeout is
\* abortedByTimeout
apiError(r, byTimeout) ==
    LET id == sessionKey(req[r].sessionId)
        payload == payloadText(req[r].state, req[r].planLength)
    IN  /\ sessions' = [sessions EXCEPT ![id] =
                appendHistory(appendHistory(sessions[id], "user", payload),
                              "assistant", [kind |-> "error"])]
        /\ req' = [req EXCEPT ![r] =
                Finish(r, [req[r] EXCEPT !.abortedByTimeout = byTimeout],
                       PlanResponse(<<>>, "api-error", "api_error"))]

\* the first call rejects: a network error, a non-2xx answer, an abort that
\* the timer did not cause
FirstCallFails(r) ==
    /\ req[r].pc = "awaiting"
    /\ apiError(r, FALSE)
    /\ UNCHANGED <<apiKey, maxPlans, now, lastRequestAt, planCount, lastCallAt, minGap, harnessVars>>

\* the abort timer of line 598 fires while the first call is in flight:
\* abortedByTimeout = true and controller.abort() make the call reject with
\* an AbortError.  The configured delay is any number, so the timer may fire
\* at any time.
TimeoutFires(r) ==
    /\ req[r].pc = "awaiting"
    /\ req[r].timeoutId
    /\ apiError(r, TRUE)
    /\ UNCHANGED <<apiKey, maxPlans, now, lastRequestAt, planCount, lastCallAt, minGap, harnessVars>>

\* the text appendHistory stores for the assistant: combinedText || "<empty>"
assistantContent(combinedText) ==
    IF combinedText.empty THEN [kind |-> "empty"]
    ELSE [kind |-> "text", text |-> combinedText]

\* requestCorrection starts: its completion call goes out (lines 868-889),
\* with no abort signal and without touching lastRequestAt; its messages
\* (lines 877-884) carry no history entry
IssueCorrectionCall(r, combinedText, failNote) ==
    /\ LogCall
    /\ req' = [req EXCEPT ![r] = [req[r] EXCEPT !.pc = "correcting",
                                               !.timeoutId = FALSE,
                                               !.historySent = 0,
                                               !.combinedText = combinedText,
                                               !.failNote = failNote,
                                               !.calls = req[r].calls + 1]]

\* the first call resolves: lines 626-633 and 657-750, up to the return or
\* to the await of requestCorrection
FirstResponse(r, response) ==
    /\ req[r].pc = "awaiting"
    /\ LET id == sessionKey(req[r].sessionId)
           state == req[r].state
           planLength == req[r].planLength
           combinedText == combinedTextOf(response)
           executionText == extractExecutionText(combinedText)
           actions == parseActionTokens(executionText.tokens)
       IN  /\ sessions' = [sessions EXCEPT ![id] =
                   appendHistory(
                       appendHistory(sessions[id], "user",
                           summarizeUserPayloadForHistory(payloadText(state, planLength))),
                       "assistant", assistantContent(combinedText))]
           /\ IF noExecutionText(executionText)
              THEN /\ IssueCorrectionCall(r, combinedText, "no-execution-tag")
                   /\ UNCHANGED planCount
              ELSE IF ~validateExecution(executionText.tokens, planLength)
              THEN /\ IssueCorrectionCall(r, combinedText, "bad-execution-format")
                   /\ UNCHANGED planCount
              ELSE IF Len(actions) < 1 \/ Len(actions) > planLength
              THEN /\ req' = [req EXCEPT ![r] =
                           Finish(r, [req[r] EXCEPT !.combinedText = combinedText],
                                  PlanResponse(planActions(state, planLength),
                                               "bad-execution-parse", "bad_format"))]
                   /\ UNCHANGED <<planCount, lastCallAt, minGap>>
              ELSE /\ planCount' = planCount + 1
                   /\ req' = [req EXCEPT ![r] =
                           Finish(r, [req[r] EXCEPT !.combinedText = combinedText],
                                  PlanResponse(sanitizeActions(actions, planLength),
                                               "openrouter", None))]
                   /\ UNCHANGED <<lastCallAt, minGap>>
    /\ UNCHANGED <<apiKey, maxPlans, now, lastRequestAt, harnessVars>>

\* a correction that parses its answer without validating it
correctionResult_Unvalidated(response, planLength) ==
    LET combinedText == combinedTextOf(response)
        executionText == extractExecutionText(combinedText)
        actions == parseActionTokens(executionText.tokens)
    IN  IF noExecutionText(executionText) THEN [isNull |-> TRUE]
        ELSE IF Len(actions) < 1 \/ Len(actions) > planLength THEN [isNull |-> TRUE]
        ELSE [isNull |-> FALSE,
              response |-> PlanResponse(sanitizeActions(actions, planLength),
                                        "openrouter-corrected", None)]

\* what requestCorrection returns for a completion (lines 891-931): null, or
\* the corrected PlanResponse
correctionResult(response, planLength) ==
    LET combinedText == combinedTextOf(response)
        executionText == extractExecutionText(combinedText)
        actions == parseActionTokens(executionText.tokens)
    IN  IF noExecutionText(executionText) THEN [isNull |-> TRUE]
        ELSE IF ~validateExecution(executionText.tokens, planLength) THEN [isNull |-> TRUE]
        ELSE IF Len(actions) < 1 \/ Len(actions) > planLength THEN [isNull |-> TRUE]
        ELSE [isNull |-> FALSE,
              response |-> PlanResponse(sanitizeActions(actions, planLength),
                                        "openrouter-corrected", None)]

\* callOpenRouterPlan after requestCorrection returned null (lines 695-701
\* and 715-721)
correctionAbandoned(r) ==
    Finish(r, req[r], PlanResponse(planActions(req[r].state, req[r].planLength),
                                   req[r].failNote, "bad_format"))

\* the correction call resolves
CorrectionResponse(r, response) ==
    /\ req[r].pc = "correcting"
    /\ LET result == correctionResult(response, req[r].planLength)
       IN  req' = [req EXCEPT ![r] =
               IF result.isNull THEN correctionAbandoned(r)
               ELSE Finish(r, req[r], result.response)]
    /\ UNCHANGED <<apiKey, maxPlans, now, lastRequestAt, planCount, sessions,
                   lastCallAt, minGap, harnessVars>>

\* a correction that is tried again when its call rejects
CorrectionFails_Retry(r) ==
    /\ req[r].pc = "correcting"
    /\ IF req[r].calls < 3
       THEN /\ LogCall
            /\ req' = [req EXCEPT ![r] = [req[r] EXCEPT !.calls = req[r].calls + 1]]
       ELSE /\ req' = [req EXCEPT ![r] = correctionAbandoned(r)]
            /\ UNCHANGED <<lastCallAt, minGap>>
    /\ UNCHANGED <<apiKey, maxPlans, now, lastRequestAt, planCount, sessions, harnessVars>>

\* a catch block copied from the first call: the failure goes to the history
CorrectionFails_LogsHistory(r) ==
    /\ req[r].pc = "correcting"
    /\ req' = [req EXCEPT ![r] = correctionAbandoned(r)]
    /\ sessions' = [sessions EXCEPT ![sessionKey(req[r].sessionId)] =
            appendHistory(@, "assistant", [kind |-> "error"])]
    /\ UNCHANGED <<apiKey, maxPlans, now, lastRequestAt, planCount,
                   lastCallAt, minGap, harnessVars>>

\* the correction call rejects (lines 932-937)
CorrectionFails(r) ==
    /\ req[r].pc = "correcting"
    /\ req' = [req EXCEPT ![r] = correctionAbandoned(r)]
    /\ UNCHANGED <<apiKey, maxPlans, now, lastRequestAt, planCount, sessions,
                   lastCallAt, minGap, harnessVars>>

\* the clock advances; it keeps running while a throttle timer is pending
Tick ==
    /\ \/ now < MIN_REQUEST_GAP_MS + MaxTicks * TickMs
       \/ \E r \in Slots : req[r].pc = "waiting" /\ now < req[r].wakeAt
    /\ now' = now + TickMs
    /\ UNCHANGED <<apiKey, maxPlans, lastRequestAt, planCount, sessions, req,
                   lastCallAt, minGap, harnessVars>>

NoCall == [fn |-> None]

\* module initialisation (lines 19-27 and 104-107); Date.now() is at least
\* MIN_REQUEST_GAP_MS past lastRequestAt = 0
Init ==
    /\ apiKey \in BOOLEAN
    /\ maxPlans \in 0..MaxCeiling
    /\ now = MIN_REQUEST_GAP_MS
    /\ lastRequestAt = 0
    /\ planCount = 0
    /\ sessions = <<>>
    /\ req = [r \in Slots |-> IdleReq]
    /\ lastCallAt = NoCallYet
    /\ minGap = MIN_REQUEST_GAP_MS
    /\ call = NoCall
    /\ ret = <<>>

Next ==
    \/ \E r \in Slots, input \in PlanInputs, sessionId \in SessionIds :
          Plan(r, input[1], input[2], sessionId)
    \/ \E r \in Slots : WakeUp(r)
    \/ \E r \in Slots, response \in ModelResponses : FirstResponse(r, response)
    \/ \E r \in Slots : FirstCallFails(r)
    \/ \E r \in Slots : TimeoutFires(r)
    \/ \E r \in Slots, response \in ModelResponses : CorrectionResponse(r, response)
    \/ \E r \in Slots : CorrectionFails(r)
    \/ Tick

Spec == Init /\ [][Next]_vars

(***************************************************************************)
(* One request on its own, over a wide range of inputs                     *)
(***************************************************************************)
MaxWidePlanLength == 11     \* the largest planLength of a lone request

WidePlanLengths == 0..MaxWidePlanLength

\* every combination of what planActions reads
WideGameStates ==
    { GameState(0, 6, 1, fuel[1], fuel[2], cargoCur, money, atFuel, atShop, Scan(<<>>)) :
        fuel \in {<<1, 1>>, <<0, 1>>}, cargoCur \in {0, 1}, money \in {149, 150},
        atFuel \in BOOLEAN, atShop \in BOOLEAN }

TOK_SURFACE_OPS == <<"S","U","R","F","A","C","E","_","O","P","S">>

TOK_MOVE_U == <<"M","O","V","E",":","U">>

TOK_MOVE_L == <<"M","O","V","E",":","L">>

TOK_UPGRADE_ == <<"U","P","G","R","A","D","E",":">>

TOK_MOVE_D_X == <<"M","O","V","E",":","D",":","X">>

WideModelTexts ==
    ModelTexts \cup
    { Text("closed", <<>>),
      Text("open", <<>>),
      Text("closed", <<TOK_SURFACE_OPS, TOK_MOVE_U, TOK_MOVE_L>>),
      Text("closed", <<TOK_UPGRADE_>>),
      Text("closed", <<TOK_MOVE_D, TOK_MOVE_D_X>>),
      Text("closed", [i \in 1..MaxWidePlanLength |-> TOK_MOVE_D]) }

WideModelResponses ==
    [content : WideModelTexts, reasoning : {EmptyText}]
    \cup [content : {EmptyText}, reasoning : {EmptyText, Text("closed", <<TOK_MOVE_D>>)}]

\* the steps of the first invocation when no other one overlaps it: its
\* throttle never waits (Date.now() - 0 >= MIN_REQUEST_GAP_MS)
NextSolo ==
    \/ \E state \in WideGameStates, planLength \in WidePlanLengths :
          Plan(1, state, planLength, None)
    \/ \E response \in WideModelResponses : FirstResponse(1, response)
    \/ FirstCallFails(1)
    \/ TimeoutFires(1)
    \/ \E response \in WideModelResponses : CorrectionResponse(1, response)
    \/ CorrectionFails(1)

SpecSolo == Init /\ [][NextSolo]_vars

(***************************************************************************)
(* planActions on its own                                                  *)
(***************************************************************************)
InitFallback ==
    /\ apiKey = FALSE
    /\ maxPlans = 0
    /\ now = MIN_REQUEST_GAP_MS
    /\ lastRequestAt = 0
    /\ planCount = 0
    /\ sessions = <<>>
    /\ req = [r \in Slots |-> IdleReq]
    /\ lastCallAt = NoCallYet
    /\ minGap = MIN_REQUEST_GAP_MS
    /\ call \in [fn : {"planActions"}, state : WideGameStates,
                 planLength : (0 - 1)..MaxWidePlanLength]
    /\ ret = [done |-> FALSE]

RunPlanActions ==
    /\ call.fn = "planActions"
    /\ ~ret.done
    /\ ret' = [done |-> TRUE, value |-> planActions(call.state, call.planLength)]
    /\ UNCHANGED <<call, protocolVars>>

SpecFallback == InitFallback /\ [][RunPlanActions]_vars

(***************************************************************************)
(* One game client: requests for one session, one after the other          *)
(***************************************************************************)
MaxSerialRequests == 4      \* requests the client sends in one behaviour

\* the answers of the model endpoint to the serial client
SerialResponses ==
    { [content |-> Text("closed", <<TOK_MOVE_D>>), reasoning |-> EmptyText],
      [content |-> Text("none", <<>>), reasoning |-> EmptyText] }

\* call counts the requests answered so far and keeps their atFuelStation
\* flags in arrival order: flags of all of them, reached of those that went
\* past the key and ceiling guards
InitSerial ==
    /\ apiKey \in BOOLEAN
    /\ maxPlans \in 0..MaxCeiling
    /\ now = MIN_REQUEST_GAP_MS
    /\ lastRequestAt = 0
    /\ planCount = 0
    /\ sessions = <<>>
    /\ req = [r \in Slots |-> IdleReq]
    /\ lastCallAt = NoCallYet
    /\ minGap = MIN_REQUEST_GAP_MS
    /\ call = [fn |-> "serial", n |-> 0, flags |-> <<>>, reached |-> <<>>]
    /\ ret = <<>>

\* POST /plan answers: callOpenRouterPlan has returned and its result is
\* sent; the invocation is over
Return(r) ==
    /\ req[r].pc = "done"
    /\ req' = [req EXCEPT ![r] = IdleReq]
    /\ call' = [call EXCEPT
            !.n = @ + 1,
            !.flags = Append(@, req[r].state.atFuelStation),
            !.reached = IF req[r].response.note \in {"fallback-no-key", "fallback-max-plans"}
                        THEN @
                        ELSE Append(@, req[r].state.atFuelStation)]
    /\ UNCHANGED <<apiKey, maxPlans, now, lastRequestAt, planCount, sessions,
                   lastCallAt, minGap, ret>>

\* the client sends its next request only after the answer to the last one
NextSerial ==
    \/ /\ call.n < MaxSerialRequests
       /\ \E input \in PlanInputs : Plan(1, input[1], input[2], None)
    \/ WakeUp(1)
    \/ \E response \in SerialResponses : FirstResponse(1, response)
    \/ FirstCallFails(1)
    \/ TimeoutFires(1)
    \/ \E response \in SerialResponses : CorrectionResponse(1, response)
    \/ CorrectionFails(1)
    \/ Return(1)
    \/ Tick

SpecSerial == InitSerial /\ [][NextSerial]_vars

(***************************************************************************)
(* validateExecution and parseActionTokens on their own                    *)
(***************************************************************************)
MaxGrammarTokens == 3       \* the most tokens of an execution text, and the largest planLength

TOK_UPGRADE_FUEL == <<"U","P","G","R","A","D","E",":","F","U","E","L">>

TOK_Upgrade_Cargo == <<"U","p","g","r","a","d","e",":","C","a","r","g","o">>

TOK_upgrade_drill == <<"u","p","g","r","a","d","e",":","d","r","i","l","l">>

TOK_surface_ops == <<"s","u","r","f","a","c","e","_","o","p","s">>

\* every token of the grammar in some letter case, and tokens outside it
GrammarTokens ==
    { TOK_SURFACE_OPS, TOK_surface_ops, TOK_MOVE_U, TOK_MOVE_D, TOK_MOVE_L, TOK_move_r,
      TOK_UPGRADE_FUEL, TOK_Upgrade_Cargo, TOK_UPGRADE_HULL, TOK_upgrade_drill,
      TOK_MOVE_Z, TOK_UPGRADE_, TOK_MOVE_D_X }

\* the execution texts: every token sequence of up to MaxGrammarTokens tokens
ExecutionTexts ==
    UNION { [1..n -> GrammarTokens] : n \in 0..MaxGrammarTokens }

InitGrammar ==
    /\ apiKey = FALSE
    /\ maxPlans = 0
    /\ now = MIN_REQUEST_GAP_MS
    /\ lastRequestAt = 0
    /\ planCount = 0
    /\ sessions = <<>>
    /\ req = [r \in Slots |-> IdleReq]
    /\ lastCallAt = NoCallYet
    /\ minGap = MIN_REQUEST_GAP_MS
    /\ call \in [fn : {"grammar"}, tokens : ExecutionTexts,
                 planLength : 0..MaxGrammarTokens]
    /\ ret = [done |-> FALSE]

\* validateExecution, then parseActionTokens, on the same execution text
RunGrammar ==
    /\ call.fn = "grammar"
    /\ ~ret.done
    /\ ret' = [done |-> TRUE,
               success |-> validateExecution(call.tokens, call.planLength),
               actions |-> parseActionTokens(call.tokens)]
    /\ UNCHANGED <<call, protocolVars>>

SpecGrammar == InitGrammar /\ [][RunGrammar]_vars

(***************************************************************************)
(* updateMemory on its own: a sequence of calls on one session             *)
(***************************************************************************)
MaxMemoryCalls == 3         \* calls of updateMemory in one behaviour

\* a 6x6 scan with dirt and ore around the player
ScanSixBySix ==
    Scan(<< Row(<<".",".",".",".",".",".">>),
            Row(<<".",".","d","d",".",".">>),
            Row(<<".",".","d","o",".",".">>),
            Row(<<".",".","d",".",".",".">>),
            Row(<<".",".",".",".",".",".">>),
            Row(<<".",".",".",".",".",".">>) >>)

\* scans of one cell, of empty rows, with a row that is no string, and a
\* localScan that is no array
MemoryScans ==
    { ScanSixBySix,
      Scan(<<Row(<<"d">>)>>),
      Scan(<<Row(<<"o">>)>>),
      Scan(<<Row(<<>>), Row(<<>>)>>),
      Scan(<<NonStringRow, Row(<<".", "r">>)>>),
      [isArray |-> FALSE, rows |-> <<>>] }

MemoryPositions == { <<10, 1>>, <<0, 0>>, <<3, 2>> }

MemoryStates ==
    { GameState(0, p[1], p[2], 1, 1, 0, 0, FALSE, FALSE, scan) :
        p \in MemoryPositions, scan \in MemoryScans }

InitMemory ==
    /\ apiKey = TRUE
    /\ maxPlans = 0
    /\ now = MIN_REQUEST_GAP_MS
    /\ lastRequestAt = 0
    /\ planCount = 0
    /\ sessions = getSession(<<>>, None)
    /\ req = [r \in Slots |-> IdleReq]
    /\ lastCallAt = NoCallYet
    /\ minGap = MIN_REQUEST_GAP_MS
    /\ call = [fn |-> "updateMemory", n |-> 0, state |-> SyntheticState, repeated |-> FALSE]
    /\ ret = [done |-> FALSE]

\* updateMemory(session, state) on the session of id "default"; call keeps
\* the arguments of the latest call and whether they repeat the previous ones
RunUpdateMemory(state) ==
    /\ call.fn = "updateMemory"
    /\ call.n < MaxMemoryCalls
    /\ sessions' = [sessions EXCEPT !["default"] = updateMemory(sessions["default"], state)]
    /\ call' = [fn |-> "updateMemory", n |-> call.n + 1, state |-> state,
                repeated |-> call.n >= 1 /\ state = call.state]
    /\ UNCHANGED <<apiKey, maxPlans, now, lastRequestAt, planCount, req,
                   lastCallAt, minGap, ret>>

NextMemory == \E state \in MemoryStates : RunUpdateMemory(state)

SpecMemory == InitMemory /\ [][NextMemory]_vars

(***************************************************************************)
(* Claims                                                                  *)
(***************************************************************************)
Done(r) == req[r].pc = "done"

FallbackNotes ==
    {"fallback-no-key", "fallback-max-plans", "no-execution-tag",
     "bad-execution-format", "bad-execution-parse"}

AcceptedNotes == {"openrouter", "openrouter-corrected"}

\* C1: every PlanResponse that callOpenRouterPlan returns holds at least one
\* action, unless it is the upstream-failure response (status api_error);
\* in particular every fallback response and every accepted one does.
C1_NonEmptyUnlessApiError ==
    \A r \in Slots : Done(r) =>
        /\ req[r].response.note \in FallbackNotes \cup AcceptedNotes \cup {"api-error"}
        /\ req[r].response.status # "api_error" => Len(req[r].response.actions) >= 1
        /\ req[r].response.note \in FallbackNotes \cup AcceptedNotes
              => req[r].response.status # "api_error"

\* C1 witness: a fallback after a failed correction next to a response that
\* a correction made acceptable, both with actions
C1_Witness ==
    /\ Done(1) /\ req[1].response.note = "bad-execution-format"
    /\ Len(req[1].response.actions) >= 1
    /\ Done(2) /\ req[2].response.note = "openrouter-corrected"
    /\ Len(req[2].response.actions) >= 1

\* C2: for every integer planLength >= 1 and every outcome of a request,
\* the returned list has at most planLength actions, each a MOVE with a
\* direction of U, D, L, R, an UPGRADE with a kind of FUEL, CARGO, HULL,
\* DRILL, or a SURFACE_OPS.
C2_ValidAndBounded ==
    \A r \in Slots : Done(r) /\ req[r].planLength >= 1 =>
        /\ Len(req[r].response.actions) <= req[r].planLength
        /\ \A i \in 1..Len(req[r].response.actions) : IsAction(req[r].response.actions[i])

\* C2 witness: the model's plan of MaxWidePlanLength valid tokens is accepted
\* and cut to 10 actions
C2_Witness ==
    /\ Done(1) /\ req[1].response.note = "openrouter"
    /\ req[1].planLength = MaxWidePlanLength
    /\ Len(req[1].response.actions) = 10

\* the timers of the event loop fire; the model endpoint owes no answer
FairSolo == SpecSolo /\ WF_vars(TimeoutFires(1))

\* C3: every plan request eventually completes with a PlanResponse, even
\* when the model endpoint never answers, because the configured timeout
\* cancels every call of the request that is in flight.
C3_EveryRequestCompletes ==
    \A r \in Slots : (req[r].pc # "idle") ~> Done(r)

\* the execution text of the first response of request r
firstExecutionText(r) == extractExecutionText(req[r].combinedText)

\* the first response of r failed extraction or validation
firstFailed(r) ==
    \/ noExecutionText(firstExecutionText(r))
    \/ ~validateExecution(firstExecutionText(r).tokens, req[r].planLength)

\* C4: a request issues at most two model calls, the second one only after
\* its first response failed extraction or validation, and once it has
\* returned (also after a failed correction) it issues no further call.
C4_AtMostOneCorrection ==
    /\ [](\A r \in Slots :
            /\ req[r].calls <= 2
            /\ req[r].pc = "correcting" => req[r].calls = 2
            /\ req[r].calls = 2 => firstFailed(r))
    /\ [][\A r \in Slots : Done(r) =>
            req'[r].pc = "done" /\ req'[r].calls = req[r].calls]_vars

\* C4 witness: a request that returned the fallback after its one
\* correction call rejected or answered badly
C4_Witness ==
    \E r \in Slots : Done(r) /\ req[r].calls = 2 /\ req[r].response.status = "bad_format"

\* C5: when the first model call fails (network error, non-2xx, external
\* abort, timeout abort) the request returns status api_error with an empty
\* action list; no fallback plan is substituted and no correction call goes
\* out.
C5_FirstCallFailureIsApiError ==
    /\ [][\A r \in Slots : (FirstCallFails(r) \/ TimeoutFires(r)) =>
            /\ req'[r].pc = "done"
            /\ req'[r].response.status = "api_error"
            /\ req'[r].response.actions = <<>>
            /\ req'[r].calls = 1
            /\ lastCallAt' = lastCallAt]_vars
    /\ [](\A r \in Slots : Done(r) /\ req[r].response.status = "api_error" =>
            req[r].response.actions = <<>> /\ req[r].calls = 1)

\* C5 witness: the abort timer ended the first call
C5_Witness ==
    /\ Done(1) /\ req[1].abortedByTimeout
    /\ req[1].response.status = "api_error" /\ req[1].response.actions = <<>>

\* the correction round of r was tried and abandoned
correctionFailed(r) ==
    Done(r) /\ req[r].calls = 2 /\ req[r].response.note # "openrouter-corrected"

\* C6: after a failed correction the note is "bad-execution-format" when the
\* first response had an execution section whose body failed the grammar or
\* the token count (a body of no token has a count outside 1..planLength),
\* and "no-execution-tag" when it had no execution section; the actions are
\* the fallback plan for (state, planLength), planLength >= 1.
C6_AsStated ==
    \A r \in Slots : correctionFailed(r) /\ req[r].planLength >= 1 =>
        /\ req[r].response.actions = planActions(req[r].state, req[r].planLength)
        /\ req[r].combinedText.tag = "none" => req[r].response.note = "no-execution-tag"
        /\ req[r].combinedText.tag # "none" => req[r].response.note = "bad-execution-format"

\* C7: without an API key every request returns note "fallback-no-key" with
\* the fallback planner's actions, min(planLength, 10) of them for
\* planLength >= 1, whatever the game state, and no model call goes out.
C7_NoKeyFallback ==
    ~apiKey =>
        /\ lastCallAt = NoCallYet
        /\ \A r \in Slots :
            /\ req[r].pc \in {"idle", "done"}
            /\ Done(r) =>
                /\ req[r].response.note = "fallback-no-key"
                /\ req[r].response.actions = planActions(req[r].state, req[r].planLength)
                /\ req[r].planLength >= 1 =>
                      Len(req[r].response.actions) = Min(req[r].planLength, 10)
                /\ req[r].calls = 0

\* C7 witness: fuel 1 of 1, no cargo, no key, planLength above 10
C7_Witness ==
    /\ ~apiKey /\ Done(1)
    /\ req[1].state.fuel = [cur |-> 1, max |-> 1] /\ req[1].state.cargo.cur = 0
    /\ req[1].planLength = MaxWidePlanLength
    /\ req[1].response.note = "fallback-no-key"
    /\ Len(req[1].response.actions) = 10

\* C8: with a ceiling N > 0 a request that starts when the plan counter is
\* at least N returns the fallback plan with note "fallback-max-plans" and
\* issues no model call; with N = 0 the ceiling guard never fires.
C8_CeilingGuard ==
    /\ [][\A r \in Slots : apiKey /\ req[r].pc = "idle" /\ req'[r].pc # "idle" =>
            IF maxPlans > 0 /\ planCount >= maxPlans
            THEN /\ req'[r].pc = "done"
                 /\ req'[r].response.note = "fallback-max-plans"
                 /\ req'[r].response.actions = planActions(req'[r].state, req'[r].planLength)
                 /\ req'[r].calls = 0
                 /\ lastCallAt' = lastCallAt
            ELSE req'[r].pc \in {"waiting", "awaiting"}]_vars
    /\ [](\A r \in Slots : Done(r) /\ req[r].response.note = "fallback-max-plans" =>
            maxPlans > 0 /\ req[r].calls = 0)

\* C8 witness: the second request met the exhausted budget
C8_Witness ==
    /\ maxPlans > 0 /\ planCount >= maxPlans
    /\ Done(2) /\ req[2].response.note = "fallback-max-plans"
    /\ Len(req[2].response.actions) >= 1

\* C9: any two outbound model calls of the process start at least
\* MIN_REQUEST_GAP_MS apart, across sessions and overlapping requests.
C9_CallsAreSpaced == minGap >= MIN_REQUEST_GAP_MS

\* C10: planActions returns exactly clamp(planLength, 1, 10) actions (so
\* planLength of them for planLength in 1..10), each a MOVE, an UPGRADE or a
\* SURFACE_OPS, whatever the state.
C10_FallbackLength ==
    ret.done =>
        /\ Len(ret.value) = (IF call.planLength < 1 THEN 1
                             ELSE IF call.planLength > 10 THEN 10
                             ELSE call.planLength)
        /\ call.planLength \in 1..10 => Len(ret.value) = call.planLength
        /\ \A i \in 1..Len(ret.value) :
              IsAction(ret.value[i]) /\ ret.value[i].type \in {"MOVE", "UPGRADE", "SURFACE_OPS"}

\* C10 witness: a plan of 7 SURFACE_OPS at the fuel station
C10_Witness ==
    /\ ret.done
    /\ call.planLength = 7 /\ Len(ret.value) = 7
    /\ call.state.atFuelStation /\ ret.value[7].type = "SURFACE_OPS"

\* C11: every slot of a fallback plan is SURFACE_OPS when the state is at the
\* fuel station with cargo or with fuel below the maximum, else UPGRADE FUEL
\* when it is at the upgrade shop with money >= 150, else MOVE D; the fuel
\* station wins over the shop, and all slots of one plan are the same.
C11_SlotRules ==
    ret.done /\ call.fn = "planActions" =>
        LET s == call.state
            station == s.atFuelStation /\ (s.cargo.cur > 0 \/ s.fuel.cur < s.fuel.max)
            shop == s.atUpgradeShop /\ s.money >= 150
        IN  /\ \A i \in 1..Len(ret.value) :
                /\ station => ret.value[i].type = "SURFACE_OPS"
                /\ ~station /\ shop =>
                      ret.value[i].type = "UPGRADE" /\ ret.value[i].kind = <<"F","U","E","L">>
                /\ ~station /\ ~shop =>
                      ret.value[i].type = "MOVE" /\ ret.value[i].dir = <<"D">>
            /\ \A i, j \in 1..Len(ret.value) : ret.value[i] = ret.value[j]

\* C11 witness: at both stations with money for the upgrade and cargo to
\* sell, a plan of several slots is all SURFACE_OPS
C11_Witness ==
    /\ ret.done /\ call.fn = "planActions"
    /\ call.state.atFuelStation /\ call.state.atUpgradeShop
    /\ call.state.money >= 150 /\ call.state.cargo.cur > 0
    /\ Len(ret.value) = 3
    /\ \A i \in 1..3 : ret.value[i].type = "SURFACE_OPS"

\* C12: an execution text of k tokens, 1 <= k <= planLength, each a token of
\* the grammar (SURFACE_OPS, MOVE:U|D|L|R, UPGRADE:FUEL|CARGO|HULL|DRILL) in
\* any letter case, passes validateExecution and parseActionTokens yields k
\* actions, in order, of the kind and direction or upgrade kind of the
\* upper-cased tokens; a text of no token, of more than planLength tokens or
\* with a token outside the grammar fails validation.
C12_GrammarRoundTrip ==
    ret.done /\ call.fn = "grammar" =>
        LET table == { <<STR_SURFACE_OPS, "SURFACE_OPS", <<>> >> }
                     \cup { <<STR_MOVE_ \o d, "MOVE", d>> : d \in Direction }
                     \cup { <<STR_UPGRADE_ \o k, "UPGRADE", k>> : k \in UpgradeKind }
            sameLetter(c, g) ==
                c = g \/ \E i \in 1..Len(UpperLetters) :
                            UpperLetters[i] = g /\ LowerLetters[i] = c
            caseVariant(t, g) ==
                Len(t) = Len(g) /\ \A i \in 1..Len(g) : sameLetter(t[i], g[i])
            inGrammar(t) == \E e \in table : caseVariant(t, e[1])
            matches(a, t) ==
                \E e \in table :
                    /\ caseVariant(t, e[1])
                    /\ a.type = e[2]
                    /\ e[2] = "MOVE" => a.dir = e[3]
                    /\ e[2] = "UPGRADE" => a.kind = e[3]
            k == Len(call.tokens)
            valid == /\ k >= 1
                     /\ k <= call.planLength
                     /\ \A i \in 1..k : inGrammar(call.tokens[i])
        IN  /\ valid =>
                /\ ret.success
                /\ Len(ret.actions) = k
                /\ \A i \in 1..k : matches(ret.actions[i], call.tokens[i])
            /\ ~valid => ~ret.success

\* C12 witness: "MOVE:D MOVE:D move:r" with planLength 3 gives MOVE D,
\* MOVE D, MOVE R
C12_Witness ==
    /\ ret.done /\ call.fn = "grammar"
    /\ call.tokens = <<TOK_MOVE_D, TOK_MOVE_D, TOK_move_r>> /\ call.planLength = 3
    /\ ret.success
    /\ ret.actions = <<ActMove(<<"D">>, "Planned action."), ActMove(<<"D">>, "Planned action."),
                       ActMove(<<"R">>, "Planned action.")>>

\* C13: after any sequence of updateMemory calls on a session, bounds.minX <=
\* bounds.maxX and bounds.minY <= bounds.maxY, and every coordinate that is a
\* key of the known-tile map lies inside the bounding box.
C13_BoundingBox ==
    call.fn = "updateMemory" =>
        LET b == sessions["default"].bounds
        IN  /\ b.minX <= b.maxX
            /\ b.minY <= b.maxY
            /\ \A key \in DOMAIN sessions["default"].known :
                  /\ b.minX <= key[1] /\ key[1] <= b.maxX
                  /\ b.minY <= key[2] /\ key[2] <= b.maxY

\* C13 witness: two scans of a single cell at different positions, the box
\* spans both cells
C13_Witness ==
    /\ call.fn = "updateMemory" /\ call.n = 2
    /\ Cardinality(DOMAIN sessions["default"].known) = 2
    /\ sessions["default"].bounds.minX < sessions["default"].bounds.maxX
    /\ sessions["default"].bounds.minY < 0

\* C14: from any reachable session memory, a second updateMemory with the
\* same state as the call before it leaves the known-tile map and the
\* bounding box as that call left them.
C14_Idempotent ==
    [][call.fn = "updateMemory" /\ call.n >= 1 /\ call'.n = call.n + 1
         /\ call'.state = call.state
       => /\ sessions'["default"].known = sessions["default"].known
          /\ sessions'["default"].bounds = sessions["default"].bounds]_vars

\* C14 witness: the 6x6 scan was folded twice in a row into a memory that
\* already held cells elsewhere
C14_Witness ==
    /\ call.fn = "updateMemory" /\ call.n = 3 /\ call.repeated
    /\ call.state.localScan = ScanSixBySix
    /\ Cardinality(DOMAIN sessions["default"].known) > 36

\* the latest updateMemory stored every cell of its scan: the tile at scan
\* row ry, column rx (both from 0) is under (pos.x - 2 + rx, pos.y - 2 + ry)
cellsStored ==
    LET state == call.state
        rows == state.localScan.rows
        known == sessions["default"].known
    IN  \A ry \in 0..(Len(rows) - 1) :
            rows[ry + 1].isString =>
                \A rx \in 0..(Len(rows[ry + 1].chars) - 1) :
                    /\ <<state.pos.x - 2 + rx, state.pos.y - 2 + ry>> \in DOMAIN known
                    /\ known[<<state.pos.x - 2 + rx, state.pos.y - 2 + ry>>]
                          = rows[ry + 1].chars[rx + 1]

\* the latest updateMemory had the 6x6 scan with the player at (10, 1)
scenarioCall ==
    /\ call.fn = "updateMemory" /\ call.n >= 1
    /\ call.state.localScan = ScanSixBySix
    /\ call.state.pos.x = 10 /\ call.state.pos.y = 1

\* C16 as stated: updateMemory stores the tile at scan row `row`, column
\* `col` under (player.x - 2 + col, player.y - 2 + row); with the 6x6 scan
\* and the player at (10, 1) the tile stored at (11, 1), which is scan row 2,
\* col 3, is "d".
C16_AsStated ==
    call.fn = "updateMemory" /\ call.n >= 1 /\ call.state.localScan.isArray =>
        /\ cellsStored
        /\ scenarioCall => sessions["default"].known[<<11, 1>>] = "d"

\* C16 amended: updateMemory stores the tile at scan row `row`, column `col`
\* (both counted from 0) under (player.x - 2 + col, player.y - 2 + row); with
\* the 6x6 scan and the player at (10, 1) the tile at scan row 2, col 3 is
\* "o" and is stored at (11, 1); the "d" of row 1, col 3 is stored at (11, 0).
C16_AbsoluteCoordinates ==
    call.fn = "updateMemory" /\ call.n >= 1 /\ call.state.localScan.isArray =>
        /\ cellsStored
        /\ scenarioCall =>
              /\ call.state.localScan.rows[3].chars[4] = "o"
              /\ sessions["default"].known[<<11, 1>>] = "o"
              /\ sessions["default"].known[<<11, 0>>] = "d"

\* C16 witness: the 6x6 scan folded in with the player at (10, 1)
C16_Witness ==
    /\ scenarioCall
    /\ sessions["default"].known[<<11, 1>>] = "o"
    /\ sessions["default"].known[<<8, -1>>] = "."

\* the number of places of a flag sequence that are true after a false one
\* or at the start
risingEdges(flags) ==
    Cardinality({ i \in 1..Len(flags) : flags[i] /\ (i = 1 \/ ~flags[i - 1]) })

\* the serial client has its answer and the session exists
answered == call.fn = "serial" /\ req[1].pc = "idle" /\ "default" \in DOMAIN sessions

\* C15 as stated: the fuel-run counter of the session has gone up by one on
\* each request whose atFuelStation flag is true while the flag of the
\* request before it was false (or there was none), and never otherwise.
C15_AsStated ==
    answered => sessions["default"].fuelRuns = risingEdges(call.flags)

\* C15 amended: the fuel-run counter of the session goes up by one on each
\* request that passes the key and ceiling guards whose atFuelStation flag
\* is true while the flag of the previous such request of the session was
\* false (or there was none), and never otherwise; it never decreases.
C15_FuelRunsCountTransitions ==
    /\ [](answered =>
            /\ sessions["default"].fuelRuns = risingEdges(call.reached)
            /\ call.reached # <<>> =>
                  sessions["default"].lastAtStation = call.reached[Len(call.reached)])
    /\ [][\A id \in DOMAIN sessions :
            /\ id \in DOMAIN sessions'
            /\ sessions'[id].fuelRuns >= sessions[id].fuelRuns
            /\ sessions'[id].fuelRuns <= sessions[id].fuelRuns + 1]_vars

\* C15 witness: the flags true, true, false, true count two fuel runs
C15_Witness ==
    /\ answered
    /\ call.flags = <<TRUE, TRUE, FALSE, TRUE>>
    /\ call.reached = call.flags
    /\ sessions["default"].fuelRuns = 2

\* C17: when a request ends accepted (note "openrouter", or
\* "openrouter-corrected" after the correction round) the plan counter has
\* gone up by exactly one for it and the history of its session has gained
\* exactly one user turn and one assistant turn.  Stated for the first
\* request of the process: the counter was 0 and the history empty.
C17_AcceptedSideEffects ==
    Done(1) /\ req[1].response.note \in AcceptedNotes =>
        LET history == sessions[sessionKey(req[1].sessionId)].history
        IN  /\ planCount = 1
            /\ Len(history) = 2
            /\ history[1].role = "user"
            /\ history[2].role = "assistant"

\* the completion passes extraction and validation for planLength
passesBoth(response, planLength) ==
    LET executionText == extractExecutionText(combinedTextOf(response))
    IN  ~noExecutionText(executionText) /\ validateExecution(executionText.tokens, planLength)

\* the sanitized parse of the execution text of a completion
sanitizedParse(response, planLength) ==
    sanitizeActions(
        parseActionTokens(extractExecutionText(combinedTextOf(response)).tokens),
        planLength)

\* C18: the note names the path taken.  A request whose first call was
\* answered returns "openrouter" exactly when that first response passes
\* extraction and validation, with the sanitized parse of it as actions; the
\* correction call's answer makes the request return "openrouter-corrected"
\* exactly when it passes both, with the sanitized parse of it as actions,
\* and that note is returned on no other step and only after a first
\* response that failed.
C18_NoteNamesThePath ==
    /\ [](\A r \in Slots :
            Done(r) /\ req[r].calls >= 1 /\ req[r].response.status # "api_error" =>
                /\ req[r].response.note = "openrouter" <=> ~firstFailed(r)
                /\ req[r].response.note = "openrouter" =>
                      /\ req[r].calls = 1
                      /\ req[r].response.actions =
                            sanitizeActions(parseActionTokens(firstExecutionText(r).tokens),
                                            req[r].planLength)
                      /\ Len(req[r].response.actions) =
                            Min(Len(firstExecutionText(r).tokens), 10)
                /\ req[r].response.note = "openrouter-corrected" =>
                      firstFailed(r) /\ req[r].calls = 2)
    /\ [][\A r \in Slots :
            /\ ~Done(r) /\ req'[r].pc = "done"
                  /\ req'[r].response.note = "openrouter-corrected"
               => req[r].pc = "correcting"
            /\ req[r].pc = "correcting" /\ req'[r].pc = "done" =>
                  /\ \A response \in WideModelResponses :
                        CorrectionResponse(r, response) =>
                            /\ req'[r].response.note = "openrouter-corrected"
                                  <=> passesBoth(response, req[r].planLength)
                            /\ passesBoth(response, req[r].planLength) =>
                                  req'[r].response.actions
                                      = sanitizedParse(response, req[r].planLength)
                  /\ CorrectionFails(r) => req'[r].response.note \notin AcceptedNotes
                  /\ req'[r].response.note = "openrouter-corrected" =>
                        \E response \in WideModelResponses :
                            /\ CorrectionResponse(r, response)
                            /\ passesBoth(response, req[r].planLength)]_vars

\* C18 witness: "MOVE:Z" first, then a correction of three valid tokens
C18_Witness ==
    /\ Done(1) /\ req[1].response.note = "openrouter-corrected"
    /\ req[1].combinedText = Text("closed", <<TOK_MOVE_Z>>)
    /\ req[1].response.actions =
          << ActSurfaceOps("Planned action."), ActMove(<<"U">>, "Planned action."),
             ActMove(<<"L">>, "Planned action.") >>

\* C19: every user turn of a session's history is the summary of the
\* request's payload, never the raw payload, and every assistant turn is the
\* combined model text of the request ("<empty>" standing for an empty
\* text), on every path that appends to the history.
C19_HistoryHoldsSummaries ==
    \A id \in DOMAIN sessions :
        \A i \in 1..Len(sessions[id].history) :
            LET turn == sessions[id].history[i]
            IN  /\ turn.role = "user" => turn.content.kind = "summary"
                /\ turn.role = "assistant" => turn.content.kind \in {"text", "empty"}

\* C20: the correction round neither reads nor changes the session history:
\* the messages of the correction call carry no history entry, and the step
\* on which requestCorrection returns (with a plan or with null, after an
\* answer or a failed call) leaves every session as it was.
C20_CorrectionLeavesHistory ==
    /\ [](\A r \in Slots : req[r].pc = "correcting" => req[r].historySent = 0)
    /\ [][\A r \in Slots :
            req[r].pc = "correcting" /\ req'[r].pc # "correcting" =>
                /\ req'[r].pc = "done"
                /\ sessions' = sessions]_vars

\* C20 witness: the second request of a session went through a correction
\* round that failed; the history holds the four turns of the two first
\* calls and nothing of the correction round
C20_Witness ==
    /\ Done(1) /\ Done(2)
    /\ req[2].sessionId = req[1].sessionId
    /\ req[2].calls = 2 /\ req[2].response.status = "bad_format"
    /\ Len(sessions[sessionKey(req[2].sessionId)].history) = 4

\* session holds state.localScan as updateMemory folds it: every cell of the
\* scan under its absolute coordinate, inside the bounding box, and the
\* player's position as the newest entry of the trail
scanFolded(session, state) ==
    LET rows == state.localScan.rows
        baseX == state.pos.x - 2
        baseY == state.pos.y - 2
    IN  /\ \A ry \in 0..(Len(rows) - 1) :
              rows[ry + 1].isString =>
                  \A rx \in 0..(Len(rows[ry + 1].chars) - 1) :
                      /\ <<baseX + rx, baseY + ry>> \in DOMAIN session.known
                      /\ session.known[<<baseX + rx, baseY + ry>>] = rows[ry + 1].chars[rx + 1]
                      /\ session.bounds.minX <= baseX + rx /\ baseX + rx <= session.bounds.maxX
                      /\ session.bounds.minY <= baseY + ry /\ baseY + ry <= session.bounds.maxY
        /\ session.visited # <<>>
        /\ session.visited[Len(session.visited)] =
              [x |-> state.pos.x, y |-> state.pos.y, turn |-> state.turn]

\* the request in slot r was answered by the key guard or the ceiling guard
stoppedAtGuard(r) ==
    Done(r) /\ req[r].response.note \in {"fallback-no-key", "fallback-max-plans"}

\* C21 as stated: every plan request folds state.localScan into the spatial
\* memory of its session (tile map, trail, bounds) before the guards and the
\* model call decide the outcome, whatever the outcome, the requests answered
\* with fallback-no-key or fallback-max-plans included.
C21_AsStated ==
    call.fn = "serial" /\ req[1].pc # "idle" =>
        /\ sessionKey(req[1].sessionId) \in DOMAIN sessions
        /\ scanFolded(sessions[sessionKey(req[1].sessionId)], req[1].state)

\* C21 amended: every plan request that passes the key and ceiling guards
\* folds state.localScan into the spatial memory of its session before the
\* throttle delay and the model call, whatever the outcome after that; a
\* request answered with fallback-no-key or fallback-max-plans returns on
\* the step it arrives on and leaves every session as it was, creating none.
C21_MemoryFoldedPastGuards ==
    /\ [](call.fn = "serial" /\ req[1].pc # "idle" /\ ~stoppedAtGuard(1) =>
            /\ sessionKey(req[1].sessionId) \in DOMAIN sessions
            /\ scanFolded(sessions[sessionKey(req[1].sessionId)], req[1].state))
    /\ [][req[1].pc = "idle" /\ req'[1].pc # "idle" =>
            IF planGuard(apiKey, maxPlans, planCount) # None
            THEN req'[1].pc = "done" /\ stoppedAtGuard(1)' /\ sessions' = sessions
            ELSE req'[1].pc \in {"waiting", "awaiting"}]_vars

\* C21 witness: a request waits at the throttle with its scan already in the
\* memory, the rock of the station scan under (5, -1)
C21_Witness ==
    /\ call.fn = "serial" /\ req[1].pc = "waiting"
    /\ req[1].state = GameStates_atStation
    /\ sessions["default"].known[<<5, 0 - 1>>] = "S"
    /\ scanFolded(sessions["default"], req[1].state)

(***************************************************************************)
(* The bounded trail and history: long runs on one session                 *)
(***************************************************************************)
MaxVisits == 52             \* calls of updateMemory in one behaviour

MaxAppends == 202           \* calls of appendHistory in one behaviour

\* the state of the k-th request of a client that moves about: turn k
TrailState(k) ==
    GameState(k, k % 3, 1 + (k % 2), 1, 1, 0, 0, FALSE, FALSE, Scan(<<Row(<<"d">>)>>))

\* the trail entry updateMemory pushes for the k-th request
TrailEntry(k) == [x |-> k % 3, y |-> 1 + (k % 2), turn |-> k]

\* the role of the k-th turn of a conversation: user and assistant in turns
TurnRole(k) == IF k % 2 = 1 THEN "user" ELSE "assistant"

\* the history entry appendHistory pushes for the k-th turn
TurnEntry(k) == [role |-> TurnRole(k), content |-> [kind |-> "turn", n |-> k]]

InitBounded ==
    /\ apiKey = TRUE
    /\ maxPlans = 0
    /\ now = MIN_REQUEST_GAP_MS
    /\ lastRequestAt = 0
    /\ planCount = 0
    /\ sessions = getSession(<<>>, None)
    /\ req = [r \in Slots |-> IdleReq]
    /\ lastCallAt = NoCallYet
    /\ minGap = MIN_REQUEST_GAP_MS
    /\ call = [fn |-> "bounded", visits |-> 0, appends |-> 0]
    /\ ret = [done |-> FALSE]

\* updateMemory(session, state) for the next request of the client
RunVisit ==
    /\ call.fn = "bounded"
    /\ call.visits < MaxVisits
    /\ sessions' = [sessions EXCEPT !["default"] =
            updateMemory(sessions["default"], TrailState(call.visits + 1))]
    /\ call' = [call EXCEPT !.visits = call.visits + 1]
    /\ UNCHANGED <<apiKey, maxPlans, now, lastRequestAt, planCount, req,
                   lastCallAt, minGap, ret>>

\* appendHistory(session, role, content) for the next turn
RunAppend ==
    /\ call.fn = "bounded"
    /\ call.appends < MaxAppends
    /\ sessions' = [sessions EXCEPT !["default"] =
            appendHistory(sessions["default"], TurnRole(call.appends + 1),
                          [kind |-> "turn", n |-> call.appends + 1])]
    /\ call' = [call EXCEPT !.appends = call.appends + 1]
    /\ UNCHANGED <<apiKey, maxPlans, now, lastRequestAt, planCount, req,
                   lastCallAt, minGap, ret>>

NextBounded == RunVisit \/ RunAppend

SpecBounded == InitBounded /\ [][NextBounded]_vars

\* the trail entries of the last min(n, 50) of n requests, oldest first
recentTrail(n) ==
    [i \in 1..Min(n, 50) |-> TrailEntry(n - Min(n, 50) + i)]

\* the last min(m, 200) of m turns, oldest first
recentHistory(m) ==
    [i \in 1..Min(m, 200) |-> TurnEntry(m - Min(m, 200) + i)]

\* C22: in every reachable state the visited trail of a session has at most
\* 50 entries and its history at most 200; an append that would exceed the
\* bound evicts exactly the oldest entry, so the trail is the most recent
\* <= 50 visited positions in arrival order and the history the most recent
\* <= 200 turns.
C22_BoundedFifo ==
    call.fn = "bounded" =>
        /\ Len(sessions["default"].visited) <= 50
        /\ Len(sessions["default"].history) <= 200
        /\ sessions["default"].visited = recentTrail(call.visits)
        /\ sessions["default"].history = recentHistory(call.appends)

\* C22 witness: after 52 visits and 202 turns the trail starts at the third
\* visit and the history at the third turn
C22_Witness ==
    /\ call.fn = "bounded" /\ call.visits = 52 /\ call.appends = 202
    /\ Len(sessions["default"].visited) = 50
    /\ sessions["default"].visited[1].turn = 3
    /\ Len(sessions["default"].history) = 200
    /\ sessions["default"].history[1].content.n = 3

\* the coordinates of the cells of state.localScan: the scan window
scanWindow(state) ==
    LET rows == state.localScan.rows
    IN  IF ~state.localScan.isArray THEN {}
        ELSE UNION { { <<state.pos.x - 2 + rx, state.pos.y - 2 + ry>> :
                         rx \in 0..(Len(rows[ry + 1].chars) - 1) } :
                     ry \in { r \in 0..(Len(rows) - 1) : rows[r + 1].isString } }

\* C23: after updateMemory(session, state) every cell of the scan maps to
\* the tile just observed, whatever tile the map held for that coordinate
\* before; every map entry whose coordinate is outside the scan window is
\* unchanged; and over any sequence of calls the set of known coordinates
\* never loses an element.
C23_OverwriteAndFrame ==
    [][call.fn = "updateMemory" /\ call'.n = call.n + 1 =>
          LET before == sessions["default"].known
              after == sessions'["default"].known
              state == call'.state
              rows == state.localScan.rows
          IN  /\ state.localScan.isArray =>
                    \A ry \in 0..(Len(rows) - 1) :
                        rows[ry + 1].isString =>
                            \A rx \in 0..(Len(rows[ry + 1].chars) - 1) :
                                /\ <<state.pos.x - 2 + rx, state.pos.y - 2 + ry>> \in DOMAIN after
                                /\ after[<<state.pos.x - 2 + rx, state.pos.y - 2 + ry>>]
                                      = rows[ry + 1].chars[rx + 1]
              /\ \A key \in DOMAIN before :
                    /\ key \in DOMAIN after
                    /\ key \notin scanWindow(state) => after[key] = before[key]
              /\ DOMAIN after \ DOMAIN before \subseteq scanWindow(state)]_vars

\* C23 witness: the 6x6 scan at (10, 1), then a scan of one ore cell at the
\* same position: (8, -1) went from "." to "o", the other 35 cells are kept
C23_Witness ==
    /\ call.fn = "updateMemory" /\ call.n = 2
    /\ call.state.localScan = Scan(<<Row(<<"o">>)>>)
    /\ call.state.pos.x = 10 /\ call.state.pos.y = 1
    /\ Cardinality(DOMAIN sessions["default"].known) = 36
    /\ sessions["default"].known[<<8, 0 - 1>>] = "o"
    /\ sessions["default"].known[<<11, 0>>] = "d"

\* the session id slot r works on: sessionId || "default"
sessionOf(r) == sessionKey(req[r].sessionId)

\* the request in slot r went past the key and ceiling guards
reachedModelPath(r) == req[r].pc # "idle" /\ ~stoppedAtGuard(r)

MaxCandidates == 3          \* the longest candidate list drawn entry by entry

\* candidate entries: well-typed actions, a malformed dir, a missing dir, a
\* malformed kind, an unknown type, an entry without a type (null, or a type
\* that is no string), and a valid action with an empty reason
CandidateActions ==
    { ActMove(<<"U">>, "Planned action."),
      ActMove(<<"Z">>, "Planned action."),
      [type |-> "MOVE", reason |-> ""],
      ActMove(<<"L">>, ""),
      ActUpgrade(<<"H","U","L","L">>, "Planned action."),
      ActUpgrade(<<>>, "Planned action."),
      ActSurfaceOps("Planned action."),
      [type |-> "JUMP", reason |-> "Planned action."],
      [reason |-> "Planned action."] }

\* lists longer than the ceiling of 10: all valid, all malformed, all unknown
LongCandidateLists ==
    { [i \in 1..MaxWidePlanLength |-> ActMove(<<"U">>, "Planned action.")],
      [i \in 1..MaxWidePlanLength |-> ActMove(<<"Z">>, "Planned action.")],
      [i \in 1..MaxWidePlanLength |-> [type |-> "JUMP", reason |-> "Planned action."]] }

CandidateLists ==
    UNION { [1..n -> CandidateActions] : n \in 0..MaxCandidates } \cup LongCandidateLists

InitSanitize ==
    /\ apiKey = FALSE
    /\ maxPlans = 0
    /\ now = MIN_REQUEST_GAP_MS
    /\ lastRequestAt = 0
    /\ planCount = 0
    /\ sessions = <<>>
    /\ req = [r \in Slots |-> IdleReq]
    /\ lastCallAt = NoCallYet
    /\ minGap = MIN_REQUEST_GAP_MS
    /\ call \in [fn : {"sanitizeActions"}, actions : CandidateLists,
                 planLength : WidePlanLengths]
    /\ ret = [done |-> FALSE]

RunSanitizeActions ==
    /\ call.fn = "sanitizeActions"
    /\ ~ret.done
    /\ ret' = [done |-> TRUE, value |-> sanitizeActions(call.actions, call.planLength)]
    /\ UNCHANGED <<call, protocolVars>>

SpecSanitize == InitSanitize /\ [][RunSanitizeActions]_vars

\* C25: sanitizeActions(actions, planLength), planLength >= 1, returns at
\* most planLength actions, in input order: entries of unknown type are
\* dropped, a MOVE with an invalid dir becomes MOVE D, an UPGRADE with an
\* invalid kind becomes UPGRADE FUEL, valid entries are kept (type, dir or
\* kind, and the reason they carry); when nothing survives the result is
\* the fallback plan for a state at neither station: MOVE D repeated
\* clamp(planLength, 1, 10) times.
C25_Sanitize ==
    ret.done /\ call.fn = "sanitizeActions" /\ call.planLength >= 1 =>
        LET known(a) == "type" \in DOMAIN a /\ a.type \in {"MOVE", "UPGRADE", "SURFACE_OPS"}
            survivors == SelectSeq(call.actions, known)
            limit == IF call.planLength > 10 THEN 10 ELSE call.planLength
            out == ret.value
            valid(a) ==
                \/ a.type = "MOVE" /\ "dir" \in DOMAIN a /\ a.dir \in Direction
                \/ a.type = "UPGRADE" /\ "kind" \in DOMAIN a /\ a.kind \in UpgradeKind
                \/ a.type = "SURFACE_OPS"
            coerced(a, o) ==
                /\ o.type = a.type
                /\ a.type = "MOVE" => o.dir = (IF valid(a) THEN a.dir ELSE <<"D">>)
                /\ a.type = "UPGRADE" => o.kind = (IF valid(a) THEN a.kind ELSE <<"F","U","E","L">>)
                /\ valid(a) /\ a.reason # "" => o = a
        IN  /\ Len(out) <= call.planLength
            /\ survivors # <<>> =>
                  /\ Len(out) = Min(Len(survivors), limit)
                  /\ \A i \in 1..Len(out) : coerced(survivors[i], out[i])
            /\ survivors = <<>> =>
                  /\ Len(out) = limit
                  /\ \A i \in 1..limit : out[i].type = "MOVE" /\ out[i].dir = <<"D">>
                  /\ out = planActions([SyntheticState EXCEPT !.money = 200], call.planLength)

\* C25 witness: of an unknown entry, a MOVE Z and an UPGRADE HULL with
\* planLength 2, MOVE D and UPGRADE HULL are returned
C25_Witness ==
    /\ ret.done /\ call.fn = "sanitizeActions" /\ call.planLength = 2
    /\ call.actions = << [type |-> "JUMP", reason |-> "Planned action."],
                         ActMove(<<"Z">>, "Planned action."),
                         ActUpgrade(<<"H","U","L","L">>, "Planned action.") >>
    /\ ret.value = << ActMove(<<"D">>, "Planned action."),
                      ActUpgrade(<<"H","U","L","L">>, "Planned action.") >>

(***************************************************************************)
(* buildKnownTiles on its own                                              *)
(***************************************************************************)
MaxEntries == 4             \* the most entries of a known-tile map

MaxLimit == 3               \* the largest limit

\* a tile of the result: { x, y, t }
Tile(x, y, t) == [x |-> x, y |-> y, t |-> t]

\* a comparison that looks at x before y
tileBefore_XFirst(a, b) == a.x < b.x \/ (a.x = b.x /\ a.y < b.y)

\* (a, b) => a.y - b.y || a.x - b.x is negative: a sorts before b
tileBefore(a, b) == a.y < b.y \/ (a.y = b.y /\ a.x < b.x)

\* tiles.sort(...) step: e put into the sorted sequence s
RECURSIVE sortInsert(_, _)
sortInsert(s, e) ==
    IF s = <<>> THEN <<e>>
    ELSE IF tileBefore(e, Head(s)) THEN <<e>> \o s
    ELSE <<Head(s)>> \o sortInsert(Tail(s), e)

\* tiles.sort((a, b) => a.y - b.y || a.x - b.x)
RECURSIVE sortTiles(_)
sortTiles(tiles) ==
    IF tiles = <<>> THEN <<>>
    ELSE sortInsert(sortTiles(Tail(tiles)), Head(tiles))

\* the loop of buildKnownTiles over session.known.entries(), a sequence of
\* <<key, t>> in insertion order with key = <<x, y>>
RECURSIVE collectTiles(_)
collectTiles(entries) ==
    IF entries = <<>> THEN <<>>
    ELSE LET key == Head(entries)[1]
             t == Head(entries)[2]
         IN  (IF t = "." \/ t = "?" THEN <<>> ELSE <<Tile(key[1], key[2], t)>>)
             \o collectTiles(Tail(entries))

\* buildKnownTiles(session, limit), session.known given by its entries
buildKnownTiles(entries, limit) ==
    LET tiles == collectTiles(entries)
    IN  IF Len(tiles) > limit THEN SubSeq(sortTiles(tiles), 1, limit) ELSE tiles

\* the coordinates a known-tile map may hold
TileKeys == { <<0 - 1, 0>>, <<2, 0>>, <<0, 1>>, <<1, 1>>, <<0 - 1, 2>> }

\* the tile codes: air, unknown, dirt
TileCodes == { ".", "?", "d" }

\* the maps: up to MaxEntries distinct keys in any insertion order
KnownEntries ==
    { e \in UNION { [1..n -> TileKeys \X TileCodes] : n \in 0..MaxEntries } :
        \A i, j \in 1..Len(e) : i # j => e[i][1] # e[j][1] }

InitKnownTiles ==
    /\ apiKey = FALSE
    /\ maxPlans = 0
    /\ now = MIN_REQUEST_GAP_MS
    /\ lastRequestAt = 0
    /\ planCount = 0
    /\ sessions = <<>>
    /\ req = [r \in Slots |-> IdleReq]
    /\ lastCallAt = NoCallYet
    /\ minGap = MIN_REQUEST_GAP_MS
    /\ call \in [fn : {"buildKnownTiles"}, entries : KnownEntries, limit : 0..MaxLimit]
    /\ ret = [done |-> FALSE]

RunBuildKnownTiles ==
    /\ call.fn = "buildKnownTiles"
    /\ ~ret.done
    /\ ret' = [done |-> TRUE, value |-> buildKnownTiles(call.entries, call.limit)]
    /\ UNCHANGED <<call, protocolVars>>

SpecKnownTiles == InitKnownTiles /\ [][RunBuildKnownTiles]_vars

\* C26: buildKnownTiles(session, limit) returns only map entries whose tile
\* is neither "." nor "?", never more than limit of them, and when the map
\* holds more than limit such entries the result is exactly the limit
\* entries smallest in (y, then x) order, sorted in that order.
C26_KnownTiles ==
    ret.done /\ call.fn = "buildKnownTiles" =>
        LET kept == { Tile(call.entries[i][1][1], call.entries[i][1][2], call.entries[i][2]) :
                        i \in { j \in 1..Len(call.entries) :
                                  call.entries[j][2] \notin {".", "?"} } }
            out == ret.value
            outSet == { out[i] : i \in 1..Len(out) }
            smaller(a, b) == a.y < b.y \/ (a.y = b.y /\ a.x < b.x)
        IN  /\ outSet \subseteq kept
            /\ Len(out) <= call.limit
            /\ Cardinality(kept) > call.limit =>
                  /\ Len(out) = call.limit
                  /\ \A i, j \in 1..Len(out) : i < j => smaller(out[i], out[j])
                  /\ \A a \in outSet, b \in kept \ outSet : smaller(a, b)

\* C26 witness: of four dirt tiles inserted out of order, with limit 2, the
\* two of row 0 are returned, x = -1 first
C26_Witness ==
    /\ ret.done /\ call.fn = "buildKnownTiles" /\ call.limit = 2
    /\ call.entries = << <<<<0, 1>>, "d">>, <<<<2, 0>>, "d">>,
                         <<<<0 - 1, 2>>, "d">>, <<<<0 - 1, 0>>, "d">> >>
    /\ ret.value = << Tile(0 - 1, 0, "d"), Tile(2, 0, "d") >>

(***************************************************************************)
(* buildFuelHint on its own.  Fuel amounts are counted in halves of a unit *)
(* of fuel, since an air move costs 0.5.                                   *)
(***************************************************************************)
MaxFuelHalves == 60         \* the largest fuel.cur, in halves

upThrustFuel == 2

airMoveFuelHalves == 1

DEFAULT_STATION_X == 6

DEFAULT_BASE_TURN_FUEL == 1

DEFAULT_DIG_FUEL == 2

FUEL_BUFFER == 8

\* an optional number of the state: undefined or null, or a value
Absent == [present |-> FALSE, value |-> 0]

Present(v) == [present |-> TRUE, value |-> v]

\* a ?? dflt
orElse(a, dflt) == IF a.present THEN a.value ELSE dflt

\* a whole amount of fuel, in halves
toHalves(n) == 2 * n

\* Math.abs on integers
absInt(n) == IF n < 0 THEN 0 - n ELSE n

\* a horizontal cost that takes the surface row for underground
fuelHorizontalCost_SurfaceDigs(y, baseTurnFuel, digFuel) ==
    baseTurnFuel + (IF y >= 1 THEN digFuel + toHalves(1) ELSE airMoveFuelHalves)

\* horizontalCost of buildFuelHint (line 350), in halves
fuelHorizontalCost(y, baseTurnFuel, digFuel) ==
    baseTurnFuel + (IF y > 1 THEN digFuel + toHalves(1) ELSE airMoveFuelHalves)

\* buildFuelHint(state), as far as the return estimate goes; stationX,
\* baseTurnFuel and digFuelDirt are Absent when the state does not carry them
buildFuelHint(state) ==
    LET stationX == orElse(state.stationX, DEFAULT_STATION_X)
        returnDy == Max(0, state.pos.y - 1)
        returnDx == absInt(state.pos.x - stationX)
        baseTurnFuel == orElse(state.baseTurnFuel, toHalves(DEFAULT_BASE_TURN_FUEL))
        digFuel == orElse(state.digFuelDirt, toHalves(DEFAULT_DIG_FUEL))
        verticalCost == baseTurnFuel + toHalves(upThrustFuel)
        horizontalCost == fuelHorizontalCost(state.pos.y, baseTurnFuel, digFuel)
        estReturnFuel == returnDy * verticalCost + returnDx * horizontalCost
    IN  [stationX |-> stationX, returnDx |-> returnDx, returnDy |-> returnDy,
         estReturnFuel |-> estReturnFuel, buffer |-> toHalves(FUEL_BUFFER),
         fuelCur |-> state.fuel.cur,
         shouldReturn |-> state.fuel.cur <= estReturnFuel + toHalves(FUEL_BUFFER)]

\* states for the hint: left of, at and right of the station, above, on and
\* below the surface row, with and without stations and rules of their own
HintStates ==
    [pos : [x : {5, 6, 8}, y : 0..3],
     fuel : [cur : 0..MaxFuelHalves],
     stationX : {Absent, Present(7)},
     baseTurnFuel : {Absent, Present(0), Present(3)},
     digFuelDirt : {Absent, Present(2)}]

InitFuelHint ==
    /\ apiKey = FALSE
    /\ maxPlans = 0
    /\ now = MIN_REQUEST_GAP_MS
    /\ lastRequestAt = 0
    /\ planCount = 0
    /\ sessions = <<>>
    /\ req = [r \in Slots |-> IdleReq]
    /\ lastCallAt = NoCallYet
    /\ minGap = MIN_REQUEST_GAP_MS
    /\ call \in [fn : {"buildFuelHint"}, state : HintStates]
    /\ ret = [done |-> FALSE]

RunBuildFuelHint ==
    /\ call.fn = "buildFuelHint"
    /\ ~ret.done
    /\ ret' = [done |-> TRUE, value |-> buildFuelHint(call.state)]
    /\ UNCHANGED <<call, protocolVars>>

SpecFuelHint == InitFuelHint /\ [][RunBuildFuelHint]_vars

\* C27: the fuel-return hint computes estimatedReturnCost = returnDy *
\* (baseTurnFuel + upThrustFuel) + returnDx * h, with returnDy = max(0, y -
\* 1), returnDx = |x - stationX| and h = baseTurnFuel + digCost when y > 1,
\* baseTurnFuel + airMoveCost otherwise, and reports shouldReturn exactly
\* when fuel.cur <= estimatedReturnCost + 8.  In halves of a unit: an up
\* thrust costs 4, an air move 1, a dig the dirt dig fuel (4 unless the
\* rules say otherwise) plus 2, and the buffer is 16.
C27_FuelHint ==
    ret.done /\ call.fn = "buildFuelHint" =>
        LET s == call.state
            x == s.pos.x
            y == s.pos.y
            stationX == IF s.stationX.present THEN s.stationX.value ELSE 6
            base == IF s.baseTurnFuel.present THEN s.baseTurnFuel.value ELSE 2
            digCost == (IF s.digFuelDirt.present THEN s.digFuelDirt.value ELSE 4) + 2
            dy == IF y - 1 > 0 THEN y - 1 ELSE 0
            dx == IF x >= stationX THEN x - stationX ELSE stationX - x
            h == IF y > 1 THEN base + digCost ELSE base + 1
            cost == dy * (base + 4) + dx * h
        IN  /\ ret.value.returnDy = dy
            /\ ret.value.returnDx = dx
            /\ ret.value.estReturnFuel = cost
            /\ ret.value.shouldReturn <=> (s.fuel.cur <= cost + 16)

\* C27 witness: at (8, 3) with the default station and rules the estimate is
\* 2 * 3 + 2 * 4 = 14 units of fuel, and 22 units are just few enough to
\* turn back
C27_Witness ==
    /\ ret.done /\ call.fn = "buildFuelHint"
    /\ call.state.pos = [x |-> 8, y |-> 3]
    /\ call.state.stationX = Absent /\ call.state.baseTurnFuel = Absent
    /\ call.state.digFuelDirt = Absent
    /\ call.state.fuel.cur = 44
    /\ ret.value.estReturnFuel = 28
    /\ ret.value.shouldReturn

(***************************************************************************)
(* analyzeBehavior on its own                                              *)
(***************************************************************************)
MaxTrail == 9               \* the longest visited trail handed to analyzeBehavior

BEHAVIOR_WINDOW == 8

BEHAVIOR_MIN_SAMPLES == 3

\* a window that is the whole trail
behaviorTail_Whole(visited) == visited

\* session.visited.slice(-8)
behaviorTail(visited) ==
    SubSeq(visited, Max(1, Len(visited) - BEHAVIOR_WINDOW + 1), Len(visited))

\* analyzeBehavior(session, state): null, or which of the three notes are
\* set; posKey of an entry is the pair of its x and y
analyzeBehavior(visited) ==
    LET tail == behaviorTail(visited)
        unique == { <<tail[i].x, tail[i].y>> : i \in 1..Len(tail) }
        depthDelta == tail[Len(tail)].y - tail[1].y
    IN  IF Len(tail) < BEHAVIOR_MIN_SAMPLES THEN [isNull |-> TRUE]
        ELSE [isNull |-> FALSE,
              samples |-> Len(tail),
              stuck |-> Cardinality(unique) = 1,
              oscillating |-> Cardinality(unique) = 2,
              depthNote |-> absInt(depthDelta) <= 1]

\* the positions of a trail: one column apart, one and two rows apart
TrailPositions == { <<0, 1>>, <<1, 2>>, <<0, 3>> }

\* the trails: every sequence of up to MaxTrail positions, the i-th visited
\* on turn i
Trails ==
    { [i \in 1..Len(p) |-> [x |-> p[i][1], y |-> p[i][2], turn |-> i]] :
        p \in UNION { [1..n -> TrailPositions] : n \in 0..MaxTrail } }

InitBehavior ==
    /\ apiKey = FALSE
    /\ maxPlans = 0
    /\ now = MIN_REQUEST_GAP_MS
    /\ lastRequestAt = 0
    /\ planCount = 0
    /\ sessions = <<>>
    /\ req = [r \in Slots |-> IdleReq]
    /\ lastCallAt = NoCallYet
    /\ minGap = MIN_REQUEST_GAP_MS
    /\ call \in [fn : {"analyzeBehavior"}, visited : Trails]
    /\ ret = [done |-> FALSE]

RunAnalyzeBehavior ==
    /\ call.fn = "analyzeBehavior"
    /\ ~ret.done
    /\ ret' = [done |-> TRUE, value |-> analyzeBehavior(call.visited)]
    /\ UNCHANGED <<call, protocolVars>>

SpecBehavior == InitBehavior /\ [][RunAnalyzeBehavior]_vars

\* C28: the behaviour diagnostics look at the last min(8, trail length)
\* visited positions: with fewer than 3 samples nothing is reported;
\* otherwise "stuck" is flagged iff all sampled positions are identical,
\* "oscillating" iff the samples hold exactly two distinct positions, and
\* "no depth progress" iff |y of the newest sample - y of the oldest| <= 1.
C28_Behavior ==
    ret.done /\ call.fn = "analyzeBehavior" =>
        LET v == call.visited
            n == IF Len(v) < 8 THEN Len(v) ELSE 8
            sample(i) == v[Len(v) - n + i]
            same(i, j) == sample(i).x = sample(j).x /\ sample(i).y = sample(j).y
            dy == sample(n).y - sample(1).y
        IN  IF n < 3 THEN ret.value.isNull
            ELSE /\ ~ret.value.isNull
                 /\ ret.value.samples = n
                 /\ ret.value.stuck <=> \A i, j \in 1..n : same(i, j)
                 /\ ret.value.oscillating <=>
                       /\ \E i, j \in 1..n : ~same(i, j)
                       /\ \E i, j \in 1..n : \A k \in 1..n : same(k, i) \/ same(k, j)
                 /\ ret.value.depthNote <=> (dy <= 1 /\ dy >= 0 - 1)

\* C28 witness: a trail of 9 whose oldest entry lies outside the window; the
\* 8 samples swing between two positions two rows apart, from the upper one
\* to the lower one
C28_Witness ==
    /\ ret.done /\ call.fn = "analyzeBehavior" /\ Len(call.visited) = 9
    /\ call.visited[1].y = 2
    /\ \A i \in 2..9 : call.visited[i].y = (IF i % 2 = 0 THEN 1 ELSE 3)
    /\ ~ret.value.isNull /\ ret.value.samples = 8
    /\ ~ret.value.stuck /\ ret.value.oscillating /\ ~ret.value.depthNote

\* C29: with a plan ceiling N > 0 the process-wide plan counter never
\* exceeds N in any reachable state, also when plan requests of different
\* sessions interleave at the throttle delay and at the model call.
C29_CounterUnderCeiling ==
    maxPlans > 0 => planCount <= maxPlans

\* the history of a session is a sequence of exchanges: a user turn at each
\* odd place, an assistant turn at each even place, as many of one as of the
\* other
wholeExchanges(history) ==
    /\ Len(history) % 2 = 0
    /\ \A i \in 1..Len(history) :
          history[i].role = (IF i % 2 = 1 THEN "user" ELSE "assistant")

\* the two turns are those of the request in slot r, whose first call ends
\* on this step: the user turn carries its payload, the assistant turn the
\* text of its completion or the error of its failed call
exchangeOf(r, user, assistant) ==
    /\ req[r].pc = "awaiting" /\ req'[r].pc # "awaiting"
    /\ user.role = "user"
    /\ user.content.planLength = req[r].planLength
    /\ user.content.turn = req[r].state.turn
    /\ assistant.role = "assistant"
    /\ assistant.content =
          (IF req'[r].pc = "done" /\ req'[r].response.status = "api_error"
           THEN [kind |-> "error"]
           ELSE assistantContent(req'[r].combinedText))

\* C30: also with several plan requests of one session in flight at once the
\* history of the session stays a sequence of whole exchanges: it has even
\* length (until trimming), the roles alternate, and each user turn is
\* followed at once by the assistant turn of the same request, the two being
\* appended on one step.
C30_HistoryOfWholeExchanges ==
    /\ [](\A id \in DOMAIN sessions : wholeExchanges(sessions[id].history))
    /\ [][\A id \in DOMAIN sessions :
            LET before == sessions[id].history
                after == sessions'[id].history
            IN  \/ after = before
                \/ /\ Len(after) = Len(before) + 2
                   /\ SubSeq(after, 1, Len(before)) = before
                   /\ \E r \in Slots :
                         /\ sessionOf(r) = id
                         /\ req'[r] # req[r]
                         /\ exchangeOf(r, after[Len(before) + 1], after[Len(before) + 2])]_vars

\* C30 witness: two requests of one session were in flight at once and the
\* later one was answered first: its exchange comes first in the history,
\* the exchange of the earlier request after it
C30_Witness ==
    /\ Done(1) /\ Done(2)
    /\ req[1].sessionId = req[2].sessionId
    /\ req[1].state.turn # req[2].state.turn
    /\ sessionOf(1) \in DOMAIN sessions
    /\ LET history == sessions[sessionOf(1)].history
       IN  /\ Len(history) = 4
           /\ history[1].content.turn = req[2].state.turn
           /\ history[3].content.turn = req[1].state.turn
           /\ wholeExchanges(history)

\* the test of lines 725 and 922 on the parse of an execution text
parseMismatch(tokens, planLength) ==
    Len(parseActionTokens(tokens)) < 1 \/ Len(parseActionTokens(tokens)) > planLength

\* C31: the "bad-execution-parse" outcome is unreachable: whenever
\* validateExecution succeeds on an execution text with planLength,
\* parseActionTokens returns as many actions as the text has tokens, a
\* number in 1..planLength, so the parse-mismatch branch is taken neither in
\* callOpenRouterPlan nor in requestCorrection: no request returns that
\* note, and a correction answer that passes extraction and validation is
\* never turned into null.  The first part is a fact of the two functions
\* alone and is stated once, before the request arrives, for every
\* planLength and every execution text of up to MaxGrammarTokens tokens.
C31_ParseMismatchUnreachable ==
    /\ Done(1) => req[1].response.note # "bad-execution-parse"
    /\ req[1].pc = "idle" =>
          \A planLength \in WidePlanLengths, tokens \in ExecutionTexts :
              validateExecution(tokens, planLength) =>
                  /\ Len(parseActionTokens(tokens)) = Len(tokens)
                  /\ Len(tokens) >= 1 /\ Len(tokens) <= planLength
                  /\ ~parseMismatch(tokens, planLength)
    /\ req[1].pc \in {"awaiting", "correcting"} =>
          \A response \in WideModelResponses :
              passesBoth(response, req[1].planLength) =>
                  /\ ~parseMismatch(extractExecutionText(combinedTextOf(response)).tokens,
                                    req[1].planLength)
                  /\ ~correctionResult(response, req[1].planLength).isNull

\* C31 witness: a correction answer of three valid tokens, SURFACE_OPS
\* among them, was validated for planLength 3 and parsed into three actions
C31_Witness ==
    /\ Done(1) /\ req[1].planLength = 3 /\ req[1].calls = 2
    /\ req[1].response.note = "openrouter-corrected"
    /\ Len(req[1].response.actions) = 3
    /\ req[1].response.actions[1].type = "SURFACE_OPS"
    /\ firstExecutionText(1).isNull

====
